---- MODULE Spec2Model ----
(***************************************************************************)
(* Model of the TradingView -> Gate.io perpetual futures webhook worker:   *)
(* the gateway entry (index), the per-symbol Durable Object                *)
(* (SymbolExecutor), handleWebhook, the live trader (GateIOFuturesTrader,  *)
(* in its two copies) and the in-memory TestModeFuturesTrader.             *)
(*                                                                         *)
(* Numbers.  JavaScript numbers are modelled as integers in fixed units:   *)
(*   amount, contract size      : hundredths          (1.5  is 150)        *)
(*   percentage (a fraction)    : ten-thousandths     (0.25 is 2500)       *)
(*   balance, leverage, price   : whole units                              *)
(*   sizes                      : whole contracts                          *)
(* JavaScript values that may be missing or non-numeric are tagged records *)
(* (Null, Num, NumStr, Str, Bool); objects are functions from field names  *)
(* to such values, an absent field reading as undefined (Null).            *)
(***************************************************************************)
EXTENDS Integers, Naturals, Sequences, FiniteSets, TLC

\* ------------------------------------------------------------ bounds ----
\* number of webhook requests in flight in the concurrent specification
NumReqs == 2

\* ------------------------------------------------------ JS values -------
Null == [t |-> "null", v |-> 0, s |-> ""]
Num(n) == [t |-> "num", v |-> n, s |-> ""]
NumStr(n) == [t |-> "numstr", v |-> n, s |-> ""]
Str(x) == [t |-> "str", v |-> 0, s |-> x]
Bool(b) == [t |-> "bool", v |-> IF b THEN 1 ELSE 0, s |-> ""]

\* obj[field], undefined when the object is null or lacks the field
Get(obj, f) == IF f \in DOMAIN obj THEN obj[f] ELSE Null

\* the null object / a missing payload
NoObj == [null |-> Bool(TRUE)]
IsNoObj(obj) == "null" \in DOMAIN obj

\* JS truthiness of a tagged value
Truthy(val) ==
  CASE val.t = "null" -> FALSE
    [] val.t = "num" -> val.v # 0
    [] val.t = "numstr" -> TRUE
    [] val.t = "str" -> val.s # ""
    [] val.t = "bool" -> val.v = 1

\* a || b
OrElse(a, b) == IF Truthy(a) THEN a ELSE b

\* a ?? b
Coalesce(a, b) == IF a.t = "null" THEN b ELSE a

\* ------------------------------------------------------ symbols ---------
\* a symbol is the sequence of its tokens: 'BTC/USDT:USDT' is
\* <<"BTC", "/", "USDT", ":", "USDT">>
SymBTC == <<"BTC", "/", "USDT">>
SymBTCSettle == <<"BTC", "/", "USDT", ":", "USDT">>
SymBtcLower == <<"btc", "/", "usdt">>
SymETH == <<"ETH", "/", "USDT">>

UpperTok(tok) ==
  CASE tok = "btc" -> "BTC"
    [] tok = "usdt" -> "USDT"
    [] tok = "eth" -> "ETH"
    [] OTHER -> tok

\* String.prototype.toUpperCase
toUpperCase(sym) == [i \in DOMAIN sym |-> UpperTok(sym[i])]

\* symbol.split(':')[0]
SplitColonHead(sym) ==
  LET colons == {i \in DOMAIN sym : sym[i] = ":"}
  IN  IF colons = {} THEN sym
      ELSE LET first == CHOOSE i \in colons : \A j \in colons : i <= j
           IN  SubSeq(sym, 1, first - 1)

\* str.replace('/', '_'): the first occurrence only
ReplaceFirstSlash(sym) ==
  LET slashes == {i \in DOMAIN sym : sym[i] = "/"}
  IN  IF slashes = {} THEN sym
      ELSE LET first == CHOOSE i \in slashes : \A j \in slashes : i <= j
           IN  [i \in DOMAIN sym |-> IF i = first THEN "_" ELSE sym[i]]

parseSymbol(ccxtSymbol) == ReplaceFirstSlash(SplitColonHead(ccxtSymbol))

\* ------------------------------------------------- numeric helpers ------
Min(a, b) == IF a <= b THEN a ELSE b
Max(a, b) == IF a >= b THEN a ELSE b
Abs(a) == IF a < 0 THEN -a ELSE a

\* Math.floor(n / d) for d > 0
FloorDiv(n, d) == n \div d

\* parseNumber(value, fallback): numbers and numeric strings parse, anything
\* else (null, undefined, text, booleans) gives the fallback
parseNumber(value, fallback) ==
  CASE value.t = "null" -> fallback
    [] value.t = "num" -> Num(value.v)
    [] value.t = "numstr" -> Num(value.v)
    [] OTHER -> fallback

\* parseNumber(value) with the default fallback 0, as an integer
parseNum0(value) == parseNumber(value, Num(0)).v

\* a normalization that takes every amount for a whole percentage
normalizePercentagePercentOnly(amount) ==
  LET parsed == parseNumber(amount, Null)
  IN  IF parsed.t = "null" \/ parsed.v <= 0
      THEN [err |-> TRUE, p |-> 0]
      ELSE [err |-> FALSE, p |-> parsed.v]

\* normalizePercentage(amount): amount in hundredths, the result a fraction
\* in ten-thousandths; the result "err" is the thrown
\* 'Amount must be a positive numeric percentage'
normalizePercentage(amount) ==
  LET parsed == parseNumber(amount, Null)
  IN  IF parsed.t = "null" \/ parsed.v <= 0
      THEN [err |-> TRUE, p |-> 0]
      ELSE [err |-> FALSE,
            p |-> IF parsed.v > 100 THEN parsed.v ELSE parsed.v * 100]

\* ------------------------------------------ payload field extraction ----
\* first field of the list whose parsed value is positive, else 0
RECURSIVE FirstPositive(_, _)
FirstPositive(obj, fields) ==
  IF fields = <<>> THEN 0
  ELSE IF parseNum0(Get(obj, Head(fields))) > 0
       THEN parseNum0(Get(obj, Head(fields)))
       ELSE FirstPositive(obj, Tail(fields))

\* extractAvailableBalance(accountPayload)
extractAvailableBalance(accountPayload) ==
  FirstPositive(accountPayload,
    <<"account_available_main", "available", "available_balance",
      "available_margin", "balance", "total">>)

\* extractMarginAvailableBalance(marginAccount); the nested object
\* marginAccount.quote is flattened into the fields "quote" (present when it
\* is an object) and "quote.available"
extractMarginAvailableBalance(marginAccount) ==
  IF IsNoObj(marginAccount) THEN 0
  ELSE IF Truthy(Get(marginAccount, "quote"))
          /\ parseNum0(Get(marginAccount, "quote.available")) > 0
       THEN parseNum0(Get(marginAccount, "quote.available"))
       ELSE FirstPositive(marginAccount,
              <<"available", "available_balance", "balance">>)

\* extractAccountLeverage(accountPayload): Num(v) or Null
extractAccountLeverage(accountPayload) ==
  IF IsNoObj(accountPayload) THEN Null
  ELSE LET v == FirstPositive(accountPayload,
                  <<"leverage", "cross_leverage_limit", "position_leverage",
                    "long_leverage", "short_leverage", "max_leverage">>)
       IN  IF v > 0 THEN Num(v) ELSE Null

\* determinePositionMode(position): the mode as a string; positionMode is
\* this.positionMode
determinePositionMode(position, positionMode) ==
  IF IsNoObj(position) THEN positionMode
  ELSE IF Truthy(Get(position, "mode")) THEN Get(position, "mode").s
  ELSE IF Truthy(Get(position, "position_mode"))
       THEN Get(position, "position_mode").s
  ELSE IF Get(position, "dual_mode").t = "bool"
       THEN (IF Get(position, "dual_mode").v = 1
             THEN "dual_long_short" ELSE "single")
  ELSE positionMode

\* a resolution that lets the account-level fallback win over the position
resolveLeverageFallbackFirst(position, fallbackLeverage, fallbackSource, side, defaultLeverage) ==
  LET fields == IF side = "short" THEN <<"short_leverage", "leverage">>
                ELSE <<"long_leverage", "leverage">>
      pv == IF IsNoObj(position) THEN 0 ELSE FirstPositive(position, fields)
  IN  IF Truthy(fallbackLeverage) /\ fallbackLeverage.v > 0
      THEN [value |-> fallbackLeverage.v,
            source |-> IF fallbackSource # "" THEN fallbackSource
                       ELSE "account"]
      ELSE IF pv > 0 THEN [value |-> pv, source |-> "position"]
      ELSE [value |-> IF defaultLeverage # 0 THEN defaultLeverage ELSE 1,
            source |-> "default"]

\* resolveLeverageForSide(position, fallbackLeverage, fallbackSource, side);
\* fallbackLeverage is Num(v) or Null, fallbackSource a string ("" is null),
\* defaultLeverage is this.defaultLeverage
resolveLeverageForSide(position, fallbackLeverage, fallbackSource, side, defaultLeverage) ==
  LET fields == IF side = "short" THEN <<"short_leverage", "leverage">>
                ELSE <<"long_leverage", "leverage">>
      pv == IF IsNoObj(position) THEN 0 ELSE FirstPositive(position, fields)
  IN  IF pv > 0 THEN [value |-> pv, source |-> "position"]
      ELSE IF Truthy(fallbackLeverage) /\ fallbackLeverage.v > 0
           THEN [value |-> fallbackLeverage.v,
                 source |-> IF fallbackSource # "" THEN fallbackSource
                            ELSE "account"]
      ELSE [value |-> IF defaultLeverage # 0 THEN defaultLeverage ELSE 1,
            source |-> "default"]

\* sums of the positive and of the negative entry sizes of a position array
RECURSIVE SumSizes(_, _)
SumSizes(items, positive) ==
  IF items = <<>> THEN 0
  ELSE LET size == parseNum0(Get(Head(items), "size"))
       IN  (IF positive /\ size > 0 THEN size
            ELSE IF ~positive /\ size < 0 THEN size ELSE 0)
           + SumSizes(Tail(items), positive)

\* the mode the forEach of normalizePositionPayload settles on: the first
\* entry that carries a mode or a boolean dual_mode ("" when none does)
RECURSIVE FirstMode(_)
FirstMode(items) ==
  IF items = <<>> THEN ""
  ELSE IF Truthy(Get(Head(items), "mode")) THEN Get(Head(items), "mode").s
  ELSE IF Get(Head(items), "dual_mode").t = "bool"
       THEN (IF Get(Head(items), "dual_mode").v = 1
             THEN "dual_long_short" ELSE "single")
  ELSE FirstMode(Tail(items))

\* a raw position payload of the venue: nothing, one object, or an array
RawNone == [shape |-> "null"]
RawObject(obj) == [shape |-> "object", obj |-> obj]
RawArray(items) == [shape |-> "array", items |-> items]

\* normalizePositionPayload(rawPosition, contract); the field "positions"
\* only records that the array is present (nothing reads its entries once
\* long_size and short_size are set)
normalizePositionPayload(rawPosition) ==
  IF rawPosition.shape = "null" THEN NoObj
  ELSE IF rawPosition.shape = "array"
  THEN LET longSize == SumSizes(rawPosition.items, TRUE)
           shortSize == SumSizes(rawPosition.items, FALSE)
           mode == FirstMode(rawPosition.items)
       IN  [f \in {"long_size", "short_size", "size", "positions", "mode"} |->
              CASE f = "long_size" -> Num(longSize)
                [] f = "short_size" -> Num(shortSize)
                [] f = "size" -> Num(longSize + shortSize)
                [] f = "positions" -> Str("array")
                [] f = "mode" -> IF mode = "" THEN Null ELSE Str(mode)]
  ELSE LET raw == rawPosition.obj
           parsedSize == parseNum0(Get(raw, "size"))
           long0 == parseNum0(Get(raw, "long_size"))
           short0 == parseNum0(Get(raw, "short_size"))
           longSize == IF long0 <= 0
                       THEN (IF parsedSize > 0 THEN parsedSize ELSE 0)
                       ELSE long0
           shortSize == IF short0 = 0
                        THEN (IF parsedSize < 0 THEN parsedSize ELSE 0)
                        ELSE IF short0 > 0 THEN -short0 ELSE short0
       IN  [f \in DOMAIN raw \cup {"long_size", "short_size", "size",
                                    "positions"} |->
              CASE f = "long_size" -> Num(longSize)
                [] f = "short_size" -> Num(shortSize)
                [] f = "size" -> Num(longSize + shortSize)
                [] f = "positions" -> Str("array")
                [] OTHER -> raw[f]]

\* getSideSize(position, side): a position out of getPosition always has
\* long_size and short_size, the array and net-size branches are kept for
\* payloads that lack them
getSideSize(position, side) ==
  IF IsNoObj(position) THEN 0
  ELSE LET directField == IF side = "long" THEN Get(position, "long_size")
                          ELSE Get(position, "short_size")
           size == parseNum0(Get(position, "size"))
       IN  IF directField.t # "null"
           THEN (IF side = "short" THEN Abs(parseNum0(directField))
                 ELSE parseNum0(directField))
           ELSE IF side = "long" /\ size > 0 THEN size
           ELSE IF side = "short" /\ size < 0 THEN Abs(size)
           ELSE 0

\* the contract name as the string the venue uses: 'BTC_USDT'
RECURSIVE JoinTokens(_)
JoinTokens(toks) ==
  IF toks = <<>> THEN "" ELSE Head(toks) \o JoinTokens(Tail(toks))

ContractName(symbol) == JoinTokens(parseSymbol(symbol))

\* first entry of an array whose field equals the wanted string, else null
FindByField(items, field, wanted) ==
  LET hits == {i \in DOMAIN items : Get(items[i], field).s = wanted}
  IN  IF hits = {} THEN NoObj
      ELSE items[CHOOSE i \in hits : \A j \in hits : i <= j]

\* what getMarginAccount makes of a successful response
marginAccountOf(raw, currencyPair) ==
  IF raw.shape = "array"
  THEN (IF ~IsNoObj(FindByField(raw.items, "currency_pair", currencyPair))
        THEN FindByField(raw.items, "currency_pair", currencyPair)
        ELSE IF raw.items # <<>> THEN raw.items[1] ELSE NoObj)
  ELSE IF raw.shape = "object"
          /\ (Get(raw.obj, "currency_pair").s = currencyPair
              \/ ~Truthy(Get(raw.obj, "currency_pair")))
  THEN raw.obj
  ELSE NoObj

\* tryParseResult of getAccountForContract
tryParseResult(raw, contract) ==
  IF raw.shape = "null" THEN NoObj
  ELSE IF raw.shape = "array" THEN FindByField(raw.items, "contract", contract)
  ELSE IF Get(raw.obj, "contract").s = contract
          \/ Get(raw.obj, "symbol").s = contract
  THEN raw.obj
  ELSE NoObj

\* entries of the position list that belong to the contract
RECURSIVE FilterContract(_, _)
FilterContract(items, contract) ==
  IF items = <<>> THEN <<>>
  ELSE IF Get(Head(items), "contract").s = contract
       THEN <<Head(items)>> \o FilterContract(Tail(items), contract)
       ELSE FilterContract(Tail(items), contract)

\* what the list fallback of getPosition makes of a successful response
positionFromList(raw, contract) ==
  IF raw.shape = "array" /\ FilterContract(raw.items, contract) # <<>>
  THEN LET mine == FilterContract(raw.items, contract)
       IN  [f \in {"long_size", "short_size", "size", "positions"} |->
              CASE f = "long_size" -> Num(SumSizes(mine, TRUE))
                [] f = "short_size" -> Num(SumSizes(mine, FALSE))
                [] f = "size" -> Num(SumSizes(mine, TRUE) + SumSizes(mine, FALSE))
                [] f = "positions" -> Str("array")]
  ELSE NoObj

\* getMockPrice(symbol) of the test trader: prices[symbol] ||
\* prices[baseSymbol] || 100
MockPriceTable(symbol) ==
  CASE symbol = SymBTC -> 65000
    [] symbol = SymBTCSettle -> 65000
    [] symbol = SymETH -> 3500
    [] symbol = <<"ETH", "/", "USDT", ":", "USDT">> -> 3500
    [] symbol = <<"BNB", "/", "USDT">> -> 600
    [] symbol = <<"SOL", "/", "USDT">> -> 150
    [] symbol = <<"AVAX", "/", "USDT">> -> 40
    [] OTHER -> 0

getMockPrice(symbol) ==
  IF MockPriceTable(symbol) # 0 THEN MockPriceTable(symbol)
  ELSE IF MockPriceTable(SplitColonHead(symbol)) # 0
       THEN MockPriceTable(SplitColonHead(symbol))
  ELSE 100

\* a sizing that forgets the leverage
FloorContractsUnleveraged(percentage, balance, leverage, markPrice, contractSize) ==
  FloorDiv(percentage * balance, 100 * markPrice * contractSize)

\* a sizing that rounds up to the next contract instead of down
FloorContractsCeiling(percentage, balance, leverage, markPrice, contractSize) ==
  FloorDiv(percentage * balance * leverage + 100 * markPrice * contractSize - 1,
           100 * markPrice * contractSize)

\* Math.floor(percentage * balance * leverage / markPrice / contractSize)
\* with the percentage in ten-thousandths and the contract size in hundredths
FloorContracts(percentage, balance, leverage, markPrice, contractSize) ==
  FloorDiv(percentage * balance * leverage, 100 * markPrice * contractSize)

\* ------------------------------------------------------------ state -----
VARIABLES
  env,        \* worker configuration (TEST_MODE, POSITION_MODE, ...)
  venue,      \* the payloads the exchange answers with
  payload,    \* payload[r]: the signal of request r
  pc,         \* pc[r]: where request r is suspended
  loc,        \* loc[r]: the locals of r's execution, with the exchange
              \* requests (calls) and order bodies (orders) it has issued
  outcome,    \* outcome[r]: what executeTradeViaDurableObject gave the caller
  events      \* the admissions to and the responses of the executors, in
              \* the order they happened

vars == <<env, venue, payload, pc, loc, outcome, events>>

Reqs == 1 .. NumReqs

NoResult == [kind |-> "none", size |-> 0, reduce_only |-> FALSE]
OrderResult(order) ==
  [kind |-> "order", size |-> order.size, reduce_only |-> order.reduce_only]
MockOrder(size) == [kind |-> "mock", size |-> size, reduce_only |-> FALSE]
StatusResult(status) == [kind |-> status, size |-> 0, reduce_only |-> FALSE]

NoTestPosition == [held |-> FALSE, size |-> 0, direction |-> ""]

EmptyLoc ==
  [calls |-> <<>>, orders |-> <<>>, op |-> "", side |-> "",
   percentage |-> 0, availableBalance |-> 0,
   accountLeverage |-> Null, contractLeverage |-> Null,
   marginLeverage |-> Null, fallbackLeverage |-> Null, fallbackSource |-> "",
   contractSize |-> 0, markPrice |-> 0, position |-> NoObj,
   leverage |-> 0, leverageSource |-> "", contracts |-> 0,
   requestedContracts |-> 0, positions |-> NoTestPosition,
   result |-> NoResult, threw |-> FALSE, err |-> "", failed |-> {},
   validation |-> <<>>,
   now |-> 0, data |-> [count |-> 0, resetAt |-> 0], isLimited |-> FALSE]

Pending == [status |-> "pending", error |-> "", data |-> NoResult]

\* executor key of a payload: payload.symbol.toUpperCase(), idFromName being
\* one object per name
symbolKey(r) == toUpperCase(payload[r].symbol)

\* a test that looks for the upper-case spelling of the flag
IsTestModeUpperCase == env.TEST_MODE = "TRUE"

\* the trader class handleWebhook instantiates
IsTestMode == env.TEST_MODE = "true"

\* options.positionMode: env.POSITION_MODE || 'dual_long_short', and again
\* this.positionMode = options.positionMode || 'dual_long_short' in the live
\* trader, options.positionMode || 'single' in the test trader
positionModeOption ==
  IF env.POSITION_MODE # "" THEN env.POSITION_MODE ELSE "dual_long_short"

\* options.defaultLeverage: env.DEFAULT_LEVERAGE ? Number(..) : 1, then
\* this.defaultLeverage = options.defaultLeverage || 1
defaultLeverageOption ==
  IF Truthy(env.DEFAULT_LEVERAGE) /\ parseNum0(env.DEFAULT_LEVERAGE) # 0
  THEN parseNum0(env.DEFAULT_LEVERAGE) ELSE 1

\* --------------------------------------------- effects of one turn ------
\* a turn of request r ends with a new pc and new locals
Effect(newPc, newLoc) == [pc |-> newPc, loc |-> newLoc]

\* this.request(...): one request to the exchange is issued
Issue(l, call) == [l EXCEPT !.calls = Append(@, call)]

\* an error thrown inside the try of handleWebhook: the catch awaits
\* logTrade(status 'error') and rethrows
Throw(l, message) ==
  Effect(IF env.TRADE_LOGS THEN "log_error" ELSE "respond",
         [l EXCEPT !.threw = TRUE, !.err = message])

\* the trader returned: handleWebhook awaits logTrade(status 'success')
Return(l, result) ==
  Effect(IF env.TRADE_LOGS THEN "log_success" ELSE "respond",
         [l EXCEPT !.result = result])

Apply(r, e) ==
  /\ pc' = [pc EXCEPT ![r] = e.pc]
  /\ loc' = [loc EXCEPT ![r] = e.loc]

\* the turn that follows an answer of the exchange to the request call: a
\* failed request (this.request threw) is kept in the locals' failed set
ApplyAnswer(r, call, ok, e) ==
  /\ pc' = [pc EXCEPT ![r] = e.pc]
  /\ loc' = [loc EXCEPT ![r] =
               IF ok THEN e.loc ELSE [e.loc EXCEPT !.failed = @ \cup {call}]]

\* ------------------------------------------------ test-mode trader ------
\* mockBalance.available and leverage of a TestModeFuturesTrader built from
\* the options of handleWebhook (which carry neither)
TestBalanceAvailable == 9000
TestLeverage == 10
\* parseFloat(contractInfo.quanto_multiplier) of the mock contract, '1'
TestContractSize == 100
\* the literal contractSize 0.001 of the test closes: amount / 0.001 is ten
\* contracts per hundredth
TestCloseContractsPerUnit == 10

\* percentage = amount > 1 ? amount / 100 : amount (no validation)
testPercentage(amount) ==
  IF amount.v > 100 THEN amount.v ELSE amount.v * 100

\* contracts of TestModeFuturesTrader.marketBuy / openShort
testContracts(symbol, amount) ==
  Max(1, FloorContracts(testPercentage(amount), TestBalanceAvailable,
                        TestLeverage, getMockPrice(symbol), TestContractSize))

\* the sizing both opens of the test trader go through: mock price and mock
\* contract, the constructor's balance and leverage, at least one contract
testSizing(l, op, side, symbol, amount) ==
  [l EXCEPT !.op = op, !.side = side,
            !.percentage = testPercentage(amount),
            !.availableBalance = TestBalanceAvailable,
            !.leverage = TestLeverage,
            !.markPrice = getMockPrice(symbol),
            !.contractSize = TestContractSize,
            !.contracts = testContracts(symbol, amount)]

\* TestModeFuturesTrader.marketBuy
testMarketBuy(l, symbol, amount) ==
  Return([testSizing(l, "marketBuy", "long", symbol, amount) EXCEPT
            !.positions = [held |-> TRUE,
                           size |-> testContracts(symbol, amount),
                           direction |-> "long"]],
         MockOrder(testContracts(symbol, amount)))

\* TestModeFuturesTrader.openShort
testOpenShort(l, symbol, amount) ==
  Return([testSizing(l, "openShort", "short", symbol, amount) EXCEPT
            !.positions = [held |-> TRUE,
                           size |-> -testContracts(symbol, amount),
                           direction |-> "short"]],
         MockOrder(-testContracts(symbol, amount)))

\* TestModeFuturesTrader.marketSell
testMarketSell(l, symbol, amount) ==
  IF ~l.positions.held THEN Return(l, StatusResult("no_position"))
  ELSE LET contractsToClose == amount.v * TestCloseContractsPerUnit
           actualClose == Min(contractsToClose, l.positions.size)
       IN  Return([l EXCEPT !.positions =
                     IF actualClose >= l.positions.size THEN NoTestPosition
                     ELSE [l.positions EXCEPT !.size = @ - actualClose]],
                  MockOrder(-actualClose))

\* TestModeFuturesTrader.closeShort
testCloseShort(l, symbol, amount) ==
  IF ~l.positions.held THEN Return(l, StatusResult("no_position"))
  ELSE LET contractsToClose == amount.v * TestCloseContractsPerUnit
           actualClose == Min(contractsToClose, Abs(l.positions.size))
       IN  Return([l EXCEPT !.positions =
                     IF actualClose >= Abs(l.positions.size)
                     THEN NoTestPosition
                     ELSE [l.positions EXCEPT !.size = @ + actualClose]],
                  MockOrder(actualClose))

\* the operation of one TestModeFuturesTrader that an action names
testOperation(l, action, symbol, amount) ==
  CASE action = "long_entry" -> testMarketBuy(l, symbol, amount)
    [] action = "long_exit" -> testMarketSell(l, symbol, amount)
    [] action = "short_entry" -> testOpenShort(l, symbol, amount)
    [] action = "short_exit" -> testCloseShort(l, symbol, amount)

\* ------------------------------------------------------ live trader -----
\* the two copies of class GateIOFuturesTrader
CopyExchanges == "exchanges/gateio-futures.js"
CopyHandler == "webhook-handler.js"

\* prefix of the message a failed operation is wrapped with
WrapPrefix(op) ==
  CASE op = "marketBuy" -> "Market buy (long entry) failed: "
    [] op = "marketSell" -> "Market sell (long exit) failed: "
    [] op = "openShort" -> "Open short failed: "
    [] op = "closeShort" -> "Close short failed: "

\* the order body of an open and of a close
OpenOrder(symbol, side, contracts) ==
  [contract |-> ContractName(symbol),
   size |-> IF side = "long" THEN contracts ELSE -contracts,
   text |-> IF side = "long" THEN "t-long-entry" ELSE "t-short-entry",
   reduce_only |-> FALSE]

\* a close order that is not marked reduce-only
CloseOrderNotReducing(symbol, side, sizeToClose) ==
  [contract |-> ContractName(symbol),
   size |-> IF side = "long" THEN -sizeToClose ELSE sizeToClose,
   text |-> IF side = "long" THEN "t-long-exit" ELSE "t-short-exit",
   reduce_only |-> FALSE]

CloseOrder(symbol, side, sizeToClose) ==
  [contract |-> ContractName(symbol),
   size |-> IF side = "long" THEN -sizeToClose ELSE sizeToClose,
   text |-> IF side = "long" THEN "t-long-exit" ELSE "t-short-exit",
   reduce_only |-> TRUE]

\* the POST of an order body
SubmitOrder(l, order) ==
  Effect("order", Issue([l EXCEPT !.orders = Append(@, order)], "order"))

\* calculateContractsFromPercentage from the position on, then the order of
\* marketBuy / openShort
calculateContractsFromPercentage(l, symbol, position) ==
  LET lev == resolveLeverageForSide(position, l.fallbackLeverage,
                                    l.fallbackSource, l.side,
                                    defaultLeverageOption)
      contracts == FloorContracts(l.percentage, l.availableBalance, lev.value,
                                  l.markPrice, l.contractSize)
      l2 == [l EXCEPT !.position = position, !.leverage = lev.value,
                      !.leverageSource = lev.source, !.contracts = contracts]
  IN  IF contracts <= 0
      THEN Throw(l2, "Calculated order size is zero")
      ELSE SubmitOrder(l2, OpenOrder(symbol, l.side, contracts))

\* a conversion that never gives less than one contract
convertBaseAmountToAtLeastOneContract(amount, contractSize) ==
  Max(1, Abs(FloorDiv(amount.v, contractSize)))

\* convertBaseAmountToContracts from the contract size on:
\* Math.abs(Math.floor(amount / contractSize)); an amount that is no number
\* gives NaN, which the callers treat like 0
convertBaseAmountToContracts(amount, contractSize) ==
  Abs(FloorDiv(amount.v, contractSize))

\* a close that looks at the held side only in dual mode
closePositionUnchecked(l, symbol, contractSize, amount) ==
  LET requestedContracts == convertBaseAmountToContracts(amount, contractSize)
      mode == determinePositionMode(l.position, positionModeOption)
      sideSize == getSideSize(l.position, l.side)
      l2 == [l EXCEPT !.contractSize = contractSize,
                      !.requestedContracts = requestedContracts]
  IN  IF requestedContracts <= 0
      THEN Return(l2, StatusResult("no_action"))
      ELSE IF mode # "dual_long_short"
      THEN SubmitOrder(l2, CloseOrder(symbol, l.side, requestedContracts))
      ELSE IF IsNoObj(l.position) \/ sideSize <= 0
      THEN Return(l2, StatusResult("no_position"))
      ELSE SubmitOrder(l2, CloseOrder(symbol, l.side,
                                      Min(requestedContracts, Abs(sideSize))))

\* a close that submits the requested count in either position mode
closePositionUnclamped(l, symbol, contractSize, amount) ==
  LET requestedContracts == convertBaseAmountToContracts(amount, contractSize)
      sideSize == getSideSize(l.position, l.side)
      l2 == [l EXCEPT !.contractSize = contractSize,
                      !.requestedContracts = requestedContracts]
  IN  IF IsNoObj(l.position) \/ sideSize <= 0
      THEN Return(l2, StatusResult("no_position"))
      ELSE IF requestedContracts <= 0
      THEN Return(l2, StatusResult("no_action"))
      ELSE SubmitOrder(l2, CloseOrder(symbol, l.side, requestedContracts))

\* a close that clamps to the open side in every position mode
closePositionClamped(l, symbol, contractSize, amount) ==
  LET requestedContracts == convertBaseAmountToContracts(amount, contractSize)
      sideSize == getSideSize(l.position, l.side)
      l2 == [l EXCEPT !.contractSize = contractSize,
                      !.requestedContracts = requestedContracts]
  IN  IF IsNoObj(l.position) \/ sideSize <= 0
      THEN Return(l2, StatusResult("no_position"))
      ELSE IF requestedContracts <= 0
      THEN Return(l2, StatusResult("no_action"))
      ELSE SubmitOrder(l2, CloseOrder(symbol, l.side,
                                      Min(requestedContracts, Abs(sideSize))))

\* marketSell / closeShort from the contract size on
closePosition(l, symbol, contractSize, amount) ==
  LET requestedContracts == convertBaseAmountToContracts(amount, contractSize)
      mode == determinePositionMode(l.position, positionModeOption)
      isDualMode == mode = "dual_long_short"
      sideSize == getSideSize(l.position, l.side)
      l2 == [l EXCEPT !.contractSize = contractSize,
                      !.requestedContracts = requestedContracts]
  IN  IF IsNoObj(l.position) \/ sideSize <= 0
      THEN Return(l2, StatusResult("no_position"))
      ELSE IF requestedContracts <= 0
      THEN Return(l2, StatusResult("no_action"))
      ELSE IF isDualMode
      THEN SubmitOrder(l2, CloseOrder(symbol, l.side,
                                      Min(requestedContracts, Abs(sideSize))))
      ELSE SubmitOrder(l2, CloseOrder(symbol, l.side, requestedContracts))

\* ---------------------------------------------------------- actions -----
\* a dispatch that waits for one worker-wide slot: no other request may be
\* between its admission and its response
SymbolExecutorFetchGlobalSlot(r) ==
  /\ pc[r] = "dispatch"
  /\ \A q \in Reqs \ {r} : pc[q] \in {"dispatch", "done"}
  /\ pc' = [pc EXCEPT ![r] = "do_body"]
  /\ events' = Append(events, [type |-> "admit", req |-> r])
  /\ UNCHANGED <<env, venue, payload, loc, outcome>>

\* executeTradeViaDurableObject sends the payload to the executor named by
\* its symbol key and SymbolExecutor.fetch receives it (and awaits the body)
SymbolExecutorFetch(r) ==
  /\ pc[r] = "dispatch"
  /\ pc' = [pc EXCEPT ![r] = "do_body"]
  /\ events' = Append(events, [type |-> "admit", req |-> r])
  /\ UNCHANGED <<env, venue, payload, loc, outcome>>

\* the trader operation handleWebhook selects, run to its first await
traderOperation(l, p) ==
  IF IsTestMode
  THEN CASE p.action = "long_entry" -> testMarketBuy(l, p.symbol, p.amount)
         [] p.action = "long_exit" -> testMarketSell(l, p.symbol, p.amount)
         [] p.action = "short_entry" -> testOpenShort(l, p.symbol, p.amount)
         [] p.action = "short_exit" -> testCloseShort(l, p.symbol, p.amount)
         [] OTHER -> Throw(l, "Unknown action")
  ELSE IF p.action \in {"long_entry", "short_entry"}
  THEN LET l1 == [l EXCEPT
                    !.op = IF p.action = "long_entry" THEN "marketBuy"
                           ELSE "openShort",
                    !.side = IF p.action = "long_entry" THEN "long"
                             ELSE "short"]
           np == normalizePercentage(p.amount)
       IN  IF np.err
           THEN Throw(l1, "Amount must be a positive numeric percentage")
           ELSE IF env.traderCopy = CopyExchanges
           THEN Effect("margin", Issue([l1 EXCEPT !.percentage = np.p],
                                       "margin"))
           ELSE Effect("balance", Issue([l1 EXCEPT !.percentage = np.p],
                                        "balance"))
  ELSE IF p.action \in {"long_exit", "short_exit"}
  THEN Effect("position",
              Issue([l EXCEPT
                       !.op = IF p.action = "long_exit" THEN "marketSell"
                              ELSE "closeShort",
                       !.side = IF p.action = "long_exit" THEN "long"
                                ELSE "short"],
                    "position"))
  ELSE Throw(l, "Unknown action")

\* SymbolExecutor.fetch with the body parsed calls handleWebhook, which runs
\* to the first await of the trader operation; without credentials it throws
\* before its try block
HandleWebhook(r) ==
  /\ pc[r] = "do_body"
  /\ Apply(r, IF ~IsTestMode /\ ~env.credentials
              THEN Effect("respond",
                          [loc[r] EXCEPT !.threw = TRUE,
                             !.err = "Gate.io API credentials not configured"])
              ELSE traderOperation(loc[r], payload[r]))
  /\ UNCHANGED <<env, venue, payload, outcome, events>>

\* getBalance answered (copy of webhook-handler.js)
OnBalance(r) ==
  /\ pc[r] = "balance"
  /\ \E ok \in BOOLEAN :
       ApplyAnswer(r, "balance", ok, IF ~ok THEN Throw(loc[r], "Failed to fetch balance")
                ELSE Effect("contract_account",
                       Issue([loc[r] EXCEPT
                                !.availableBalance =
                                  extractAvailableBalance(venue.account),
                                !.accountLeverage =
                                  extractAccountLeverage(venue.account)],
                             "contract_account")))
  /\ UNCHANGED <<env, venue, payload, outcome, events>>

\* getAccountForContract, dedicated endpoint answered: errors are swallowed,
\* an unusable answer leads to the list endpoint
OnContractAccount(r) ==
  /\ pc[r] = "contract_account"
  /\ \E ok \in BOOLEAN :
       LET parsed == IF ok THEN tryParseResult(venue.contractAccount,
                                               ContractName(payload[r].symbol))
                     ELSE NoObj
       IN  ApplyAnswer(r, "contract_account", ok, IF ~IsNoObj(parsed)
                    THEN Effect("margin",
                           Issue([loc[r] EXCEPT !.contractLeverage =
                                    extractAccountLeverage(parsed)],
                                 "margin"))
                    ELSE Effect("contract_account_list",
                           Issue(loc[r], "contract_account_list")))
  /\ UNCHANGED <<env, venue, payload, outcome, events>>

\* getAccountForContract, list endpoint answered (the endpoint of
\* getBalance, filtered by contract)
OnContractAccountList(r) ==
  /\ pc[r] = "contract_account_list"
  /\ \E ok \in BOOLEAN :
       LET parsed == IF ok THEN tryParseResult(RawObject(venue.account),
                                               ContractName(payload[r].symbol))
                     ELSE NoObj
       IN  ApplyAnswer(r, "contract_account_list", ok, Effect("margin",
                      Issue([loc[r] EXCEPT !.contractLeverage =
                               extractAccountLeverage(parsed)],
                            "margin")))
  /\ UNCHANGED <<env, venue, payload, outcome, events>>

\* getMarginAccount answered (errors are swallowed), then the balance check
\* and the fallback leverage of calculateContractsFromPercentage
OnMarginAccount(r) ==
  /\ pc[r] = "margin"
  /\ \E ok \in BOOLEAN :
       LET marginAccount ==
             IF ok THEN marginAccountOf(venue.margin,
                                        ContractName(payload[r].symbol))
             ELSE NoObj
           marginLeverage == extractAccountLeverage(marginAccount)
           l == loc[r]
           fallback ==
             IF env.traderCopy = CopyExchanges
             THEN [value |-> marginLeverage,
                   source |-> IF Truthy(marginLeverage) THEN "margin" ELSE ""]
             ELSE IF Truthy(marginLeverage)
                  THEN [value |-> marginLeverage, source |-> "margin"]
             ELSE IF Truthy(l.contractLeverage)
                  THEN [value |-> l.contractLeverage, source |-> "contract"]
             ELSE IF Truthy(l.accountLeverage)
                  THEN [value |-> l.accountLeverage, source |-> "account"]
             ELSE [value |-> Null, source |-> ""]
           l2 == [l EXCEPT
                    !.marginLeverage = marginLeverage,
                    !.availableBalance =
                      IF env.traderCopy = CopyExchanges
                      THEN extractMarginAvailableBalance(marginAccount)
                      ELSE @,
                    !.fallbackLeverage = fallback.value,
                    !.fallbackSource = fallback.source]
       IN  ApplyAnswer(r, "margin", ok, IF l2.availableBalance <= 0
                    THEN Throw(l2, IF env.traderCopy = CopyExchanges
                                   THEN "No available margin balance"
                                   ELSE "No available balance to open a new position")
                    ELSE Effect("contract", Issue(l2, "contract")))
  /\ UNCHANGED <<env, venue, payload, outcome, events>>

\* a contract fetch whose failure is swallowed: the operation goes on with a
\* contract size of 1 and, for an open, a mark price of 100
OnContractDefaulted(r) ==
  /\ pc[r] = "contract"
  /\ \E ok \in BOOLEAN :
       LET l == loc[r]
           isClose == l.op \in {"marketSell", "closeShort"}
           contractSize ==
             IF ok THEN parseNum0(Coalesce(Get(venue.contract, "quanto_multiplier"),
                                           Get(venue.contract, "contract_size")))
             ELSE 100
           markPrice ==
             IF ok THEN parseNum0(OrElse(Get(venue.contract, "mark_price"),
                                    OrElse(Get(venue.contract, "last_price"),
                                           Get(venue.contract, "index_price"))))
             ELSE 100
       IN  ApplyAnswer(r, "contract", ok,
             IF contractSize <= 0
             THEN Throw(l, "Unable to determine contract size")
             ELSE IF isClose
             THEN closePosition(l, payload[r].symbol, contractSize,
                                payload[r].amount)
             ELSE IF markPrice <= 0
             THEN Throw(l, "Unable to determine mark price")
             ELSE Effect("position",
                    Issue([l EXCEPT !.contractSize = contractSize,
                                    !.markPrice = markPrice],
                          "position")))
  /\ UNCHANGED <<env, venue, payload, outcome, events>>

\* getContract answered: for an open the contract size and mark price checks
\* of calculateContractsFromPercentage, then the position fetch; for a close
\* convertBaseAmountToContracts and the rest of marketSell / closeShort,
\* whose catch wraps every error
OnContract(r) ==
  /\ pc[r] = "contract"
  /\ \E ok \in BOOLEAN :
       LET l == loc[r]
           isClose == l.op \in {"marketSell", "closeShort"}
           wrap == IF isClose THEN WrapPrefix(l.op) ELSE ""
           contractSize ==
             parseNum0(Coalesce(Get(venue.contract, "quanto_multiplier"),
                                Get(venue.contract, "contract_size")))
           markPrice ==
             parseNum0(OrElse(Get(venue.contract, "mark_price"),
                         OrElse(Get(venue.contract, "last_price"),
                                Get(venue.contract, "index_price"))))
       IN  ApplyAnswer(r, "contract", ok,
             IF ~ok THEN Throw(l, wrap \o "Failed to get contract info")
             ELSE IF contractSize <= 0
             THEN Throw(l, wrap \o "Unable to determine contract size")
             ELSE IF isClose
             THEN closePosition(l, payload[r].symbol, contractSize,
                                payload[r].amount)
             ELSE IF markPrice <= 0
             THEN Throw(l, "Unable to determine mark price")
             ELSE Effect("position",
                    Issue([l EXCEPT !.contractSize = contractSize,
                                    !.markPrice = markPrice],
                          "position")))
  /\ UNCHANGED <<env, venue, payload, outcome, events>>

\* what follows getPosition: the sizing of an open, the contract fetch of a
\* close
afterPosition(l, symbol, position) ==
  IF l.op \in {"marketSell", "closeShort"}
  THEN Effect("contract", Issue([l EXCEPT !.position = position], "contract"))
  ELSE calculateContractsFromPercentage(l, symbol, position)

\* getPosition, single endpoint answered: an error or an empty answer leads
\* to the list endpoint
OnPosition(r) ==
  /\ pc[r] = "position"
  /\ \E ok \in BOOLEAN :
       LET normalized == IF ok THEN normalizePositionPayload(venue.position)
                         ELSE NoObj
       IN  ApplyAnswer(r, "position", ok, IF ~IsNoObj(normalized)
                    THEN afterPosition(loc[r], payload[r].symbol, normalized)
                    ELSE Effect("position_list",
                                Issue(loc[r], "position_list")))
  /\ UNCHANGED <<env, venue, payload, outcome, events>>

\* getPosition, list endpoint answered: an error gives no position
OnPositionList(r) ==
  /\ pc[r] = "position_list"
  /\ \E ok \in BOOLEAN :
       ApplyAnswer(r, "position_list", ok, afterPosition(loc[r], payload[r].symbol,
                  IF ok THEN positionFromList(venue.positionList,
                                              ContractName(payload[r].symbol))
                  ELSE NoObj))
  /\ UNCHANGED <<env, venue, payload, outcome, events>>

\* an order POST that is submitted once more when it fails
OnOrderRetried(r) ==
  /\ pc[r] = "order"
  /\ \E ok \in BOOLEAN :
       ApplyAnswer(r, "order", ok,
         IF ok
         THEN Return(loc[r], OrderResult(loc[r].orders[Len(loc[r].orders)]))
         ELSE IF Len(loc[r].orders) < 2
         THEN SubmitOrder(loc[r], loc[r].orders[Len(loc[r].orders)])
         ELSE Throw(loc[r], WrapPrefix(loc[r].op) \o "Gate.io API error"))
  /\ UNCHANGED <<env, venue, payload, outcome, events>>

\* the order POST answered
OnOrder(r) ==
  /\ pc[r] = "order"
  /\ \E ok \in BOOLEAN :
       ApplyAnswer(r, "order", ok, IF ok
                THEN Return(loc[r],
                            OrderResult(loc[r].orders[Len(loc[r].orders)]))
                ELSE Throw(loc[r], WrapPrefix(loc[r].op)
                                     \o "Gate.io API error"))
  /\ UNCHANGED <<env, venue, payload, outcome, events>>

\* TRADE_LOGS.put of the success record answered: a failed put throws inside
\* the try, so the catch logs again and rethrows
OnLogSuccess(r) ==
  /\ pc[r] = "log_success"
  /\ \E ok \in BOOLEAN :
       Apply(r, IF ok THEN Effect("respond", loc[r])
                ELSE Effect("log_error",
                            [loc[r] EXCEPT !.threw = TRUE,
                                           !.err = "TRADE_LOGS put failed"]))
  /\ UNCHANGED <<env, venue, payload, outcome, events>>

\* TRADE_LOGS.put of the error record answered
OnLogError(r) ==
  /\ pc[r] = "log_error"
  /\ \E ok \in BOOLEAN :
       Apply(r, IF ok THEN Effect("respond", loc[r])
                ELSE Effect("respond",
                            [loc[r] EXCEPT !.err = "TRADE_LOGS put failed"]))
  /\ UNCHANGED <<env, venue, payload, outcome, events>>

\* a catch that answers 200 with the (empty) result instead of the error
executorOutcomeSwallowed(l) ==
  [status |-> "ok", error |-> "", data |-> l.result]

\* the Response of SymbolExecutor.fetch (200 with the data, or 500 with
\* the message from its catch) as executeTradeViaDurableObject reads it:
\* not ok or success false is rethrown, otherwise the data is returned
executorOutcome(l) ==
  IF l.threw THEN [status |-> "error", error |-> l.err, data |-> NoResult]
  ELSE [status |-> "ok", error |-> "", data |-> l.result]

Respond(r) ==
  /\ pc[r] = "respond"
  /\ pc' = [pc EXCEPT ![r] = "done"]
  /\ outcome' = [outcome EXCEPT ![r] = executorOutcome(loc[r])]
  /\ events' = Append(events, [type |-> "response", req |-> r])
  /\ UNCHANGED <<env, venue, payload, loc>>

\* the turns of a deployment that runs the trader of
\* exchanges/gateio-futures.js without a TRADE_LOGS binding
LiveStep(r) ==
  \/ SymbolExecutorFetch(r)
  \/ HandleWebhook(r)
  \/ OnMarginAccount(r)
  \/ OnContract(r)
  \/ OnPosition(r)
  \/ OnPositionList(r)
  \/ OnOrder(r)
  \/ Respond(r)

\* the turns only the copy of webhook-handler.js or a TRADE_LOGS binding adds
OtherStep(r) ==
  \/ OnBalance(r)
  \/ OnContractAccount(r)
  \/ OnContractAccountList(r)
  \/ OnLogSuccess(r)
  \/ OnLogError(r)

NextLive == \E r \in Reqs : LiveStep(r)

Next == \E r \in Reqs : LiveStep(r) \/ OtherStep(r)

\* ---------------------------------------------------- initial states ----
Obj1(f1, v1) == f1 :> v1
Obj2(f1, v1, f2, v2) == f1 :> v1 @@ f2 :> v2
Obj3(f1, v1, f2, v2, f3, v3) == f1 :> v1 @@ f2 :> v2 @@ f3 :> v3

\* a margin account {quote: {available}, leverage}
MarginAccount(available, leverage) ==
  Obj3("quote", Str("object"), "quote.available", available,
       "leverage", leverage)

\* a venue on which every lookup succeeds: 1000 available at 5x, contracts of
\* size 1 marked at 100, a long position of 3 contracts
PlainVenue ==
  [margin |-> RawObject(MarginAccount(NumStr(1000), NumStr(5))),
   account |-> Obj2("available", NumStr(1000), "leverage", NumStr(4)),
   contractAccount |-> RawNone,
   contract |-> Obj2("quanto_multiplier", NumStr(100),
                     "mark_price", NumStr(100)),
   position |-> RawObject(Obj2("size", Num(3), "leverage", NumStr(0))),
   positionList |-> RawArray(<<>>)]

LiveEnv(copy, logs) ==
  [TEST_MODE |-> "", traderCopy |-> copy, credentials |-> TRUE,
   POSITION_MODE |-> "", DEFAULT_LEVERAGE |-> Null, TRADE_LOGS |-> logs]

\* a signal with the leverage field the gateway requires
LeveragedSignal(action, amount, symbol, leverage) ==
  [action |-> action, amount |-> amount, symbol |-> symbol,
   leverage |-> leverage]

\* a signal that asks for 20x
Signal(action, amount, symbol) ==
  LeveragedSignal(action, amount, symbol, Num(20))

\* the concurrent specification: NumReqs validated signals for two
\* instruments, about to be dispatched to their executors.  Requests are
\* interchangeable, so their signals are taken in one fixed order.
ConcurrentSignals ==
  <<Signal("long_entry", Num(1000), SymBTC),
    Signal("long_exit", Num(1000), SymBTC),
    Signal("long_entry", Num(1000), SymETH)>>

\* the requests carry the signals numbered by choices, in one fixed order
InitConcurrent(choices) ==
  /\ env = LiveEnv(CopyExchanges, FALSE)
  /\ venue = PlainVenue
  /\ \E choice \in [Reqs -> choices] :
       /\ \A r1, r2 \in Reqs : r1 <= r2 => choice[r1] <= choice[r2]
       /\ payload = [r \in Reqs |-> ConcurrentSignals[choice[r]]]
  /\ pc = [r \in Reqs |-> "dispatch"]
  /\ loc = [r \in Reqs |-> EmptyLoc]
  /\ outcome = [r \in Reqs |-> Pending]
  /\ events = <<>>

Init == InitConcurrent(DOMAIN ConcurrentSignals)

Spec == Init /\ [][NextLive]_vars

\* every request carries the open signal of one instrument
InitOneSymbol == InitConcurrent({1})

\* the scheduling of the worker: while some continuation is ready to run or
\* some request to the exchange is unanswered, one of them is taken
FairSpec == InitOneSymbol /\ [][NextLive]_vars /\ WF_vars(NextLive)

\* the spellings of a symbol that signals arrive with
RoutedSymbols == {SymBTC, SymBTCSettle, SymBtcLower, SymETH}

\* validated opens for symbols in any of their spellings are about to be
\* dispatched to their executors
RoutingInit ==
  /\ env = LiveEnv(CopyExchanges, FALSE)
  /\ venue = PlainVenue
  /\ \E symbols \in [Reqs -> RoutedSymbols] :
       payload = [r \in Reqs |-> Signal("long_entry", Num(1000), symbols[r])]
  /\ pc = [r \in Reqs |-> "dispatch"]
  /\ loc = [r \in Reqs |-> EmptyLoc]
  /\ outcome = [r \in Reqs |-> Pending]
  /\ events = <<>>

RoutingSpec == RoutingInit /\ [][NextLive]_vars

\* ------------------------------------------ one signal, many venues ------
Venue(margin, account, contractAccount, contract, position, positionList) ==
  [margin |-> margin, account |-> account,
   contractAccount |-> contractAccount, contract |-> contract,
   position |-> position, positionList |-> positionList]

Env(testMode, copy, credentials, positionMode, defaultLeverage, logs) ==
  [TEST_MODE |-> testMode, traderCopy |-> copy, credentials |-> credentials,
   POSITION_MODE |-> positionMode, DEFAULT_LEVERAGE |-> defaultLeverage,
   TRADE_LOGS |-> logs]

Scenario(e, v, signal) == [env |-> e, venue |-> v, signal |-> signal]

Copies == {CopyExchanges, CopyHandler}
OpenActions == {"long_entry", "short_entry"}
CloseActions == {"long_exit", "short_exit"}

\* amounts the gateway admits (0 < amount <= 100): 0.01, 0.25, 1, 1.5, 10, 100
OpenAmounts == {Num(1), Num(25), Num(100), Num(150), Num(1000), Num(10000)}

\* a contract {quanto_multiplier, mark_price}
ContractInfo(quanto, mark) ==
  Obj2("quanto_multiplier", quanto, "mark_price", mark)

\* the futures account {available, leverage}
FuturesAccount(available, leverage) ==
  Obj2("available", available, "leverage", leverage)

\* the account of one contract {contract, leverage}
ContractAccount(contract, leverage) ==
  Obj2("contract", Str(contract), "leverage", leverage)

\* a position {size, leverage, long_leverage, short_leverage}
PositionOf(size, leverage, longLeverage, shortLeverage) ==
  "size" :> size @@ "leverage" :> leverage
    @@ "long_leverage" :> longLeverage @@ "short_leverage" :> shortLeverage

\* opens over balances, leverages and contract metadata that do and do not
\* divide evenly
SizingScenarios ==
  { Scenario(
      LiveEnv(copy, FALSE),
      Venue(RawObject(MarginAccount(NumStr(available), marginLeverage)),
            FuturesAccount(NumStr(available), Null), RawNone,
            ContractInfo(quanto, mark),
            RawObject(PositionOf(Num(0), positionLeverage, Null, Null)),
            RawArray(<<>>)),
      Signal(action, amount, SymBTC)) :
      copy \in Copies, available \in {1000, 333},
      marginLeverage \in {Null, NumStr(5)},
      quanto \in {NumStr(100), NumStr(1), NumStr(300)},
      mark \in {NumStr(100), NumStr(7)},
      positionLeverage \in {NumStr(0), NumStr(3)},
      action \in OpenActions, amount \in OpenAmounts }

\* opens over every combination of present and absent leverage sources
LeverageScenarios ==
  { Scenario(
      Env("", copy, TRUE, "", defaultLeverage, FALSE),
      Venue(RawObject(MarginAccount(NumStr(1000), marginLeverage)),
            FuturesAccount(NumStr(1000), accountLeverage),
            RawObject(ContractAccount("BTC_USDT", contractLeverage)),
            ContractInfo(NumStr(100), NumStr(100)),
            position, RawArray(<<>>)),
      Signal(action, Num(1000), SymBTCSettle)) :
      copy \in Copies, defaultLeverage \in {Null, NumStr(3)},
      marginLeverage \in {Null, NumStr(5)},
      accountLeverage \in {Null, NumStr(4)},
      contractLeverage \in {Null, NumStr(6)},
      position \in {RawNone}
        \cup { RawObject(PositionOf(Num(0), lev, longLev, shortLev)) :
                 lev \in {NumStr(0), NumStr(8)}, longLev \in {Null, NumStr(2)},
                 shortLev \in {Null, NumStr(7)} },
      action \in OpenActions }

\* the four actions against the in-memory trader of test mode
TestModeScenarios ==
  { Scenario(Env("true", CopyExchanges, credentials, "", Null, logs),
             PlainVenue, Signal(action, amount, symbol)) :
      credentials \in BOOLEAN, logs \in BOOLEAN,
      action \in OpenActions \cup CloseActions, amount \in OpenAmounts,
      symbol \in {SymBTC, SymBTCSettle, SymETH, <<"DOGE", "/", "USDT">>} }

\* closes against held, absent and two-sided positions
CloseScenarios ==
  { Scenario(
      Env("", copy, TRUE, positionMode, Null, FALSE),
      Venue(RawNone, FuturesAccount(Null, Null), RawNone,
            ContractInfo(quanto, NumStr(100)), position,
            RawArray(<<Obj2("contract", Str("BTC_USDT"), "size", Num(2))>>)),
      Signal(action, amount, SymBTC)) :
      copy \in Copies, positionMode \in {"", "single"},
      quanto \in {NumStr(100), NumStr(300)},
      position \in {RawNone, RawObject(Obj1("size", Num(3))),
                    RawObject(Obj1("size", Num(-3))),
                    RawArray(<<Obj2("size", Num(4), "mode", Str("dual_long_short")),
                               Obj1("size", Num(-2))>>)},
      action \in CloseActions, amount \in {Num(1), Num(100), Num(1000)} }

\* deployments with a TRADE_LOGS binding, and one without credentials
LoggingScenarios ==
  { Scenario(Env("", copy, credentials, "", Null, TRUE), PlainVenue,
             Signal(action, amount, SymBTC)) :
      copy \in Copies, credentials \in BOOLEAN,
      action \in OpenActions \cup CloseActions,
      amount \in {Num(1), Num(1000)} }

\* closes of 10 contracts against positions that report their mode in each
\* of the ways a payload can: as an object or as an array of entries, by
\* mode, position_mode or the dual_mode flag
ModeScenarios ==
  { Scenario(
      Env("", CopyExchanges, TRUE, positionMode, Null, FALSE),
      Venue(RawNone, FuturesAccount(Null, Null), RawNone,
            ContractInfo(NumStr(100), NumStr(100)), position, RawArray(<<>>)),
      Signal(action, Num(1000), SymBTC)) :
      positionMode \in {"", "single"},
      position \in
        { RawObject(Obj2("size", Num(3), field, value)) :
            field \in {"mode", "position_mode"},
            value \in {Str("single"), Str("dual_long_short")} }
        \cup { RawObject(Obj2("size", Num(-3), "dual_mode", Bool(flag))) :
                 flag \in BOOLEAN }
        \cup { RawArray(<<Obj2("size", Num(3), field, value),
                          Obj1("size", Num(-2))>>) :
                 field \in {"mode", "position_mode"},
                 value \in {Str("single"), Str("dual_long_short")} }
        \cup { RawArray(<<Obj2("size", Num(3), "dual_mode", Bool(flag)),
                          Obj1("size", Num(-2))>>) : flag \in BOOLEAN },
      action \in CloseActions }

TradeScenarios ==
  SizingScenarios \cup LeverageScenarios \cup TestModeScenarios
    \cup CloseScenarios \cup LoggingScenarios \cup ModeScenarios

\* one validated signal is about to be dispatched to its executor; the
\* other request slots stay unused
TradeInit ==
  \E sc \in TradeScenarios :
    /\ env = sc.env
    /\ venue = sc.venue
    /\ payload = [r \in Reqs |-> sc.signal]
    /\ pc = [r \in Reqs |-> IF r = 1 THEN "dispatch" ELSE "unused"]
    /\ loc = [r \in Reqs |-> EmptyLoc]
    /\ outcome = [r \in Reqs |-> Pending]
    /\ events = <<>>

TradeSpec == TradeInit /\ [][Next]_vars

\* ------------------------------------------- one test-mode trader -------
\* the most operations one trader object is given
MaxOperations == 3

\* one more operation on the trader object of r, for one symbol: its
\* stored position before and after and its result are recorded
TestTraderCall(r) ==
  /\ pc[r] = "test_trader"
  /\ Len(events) < MaxOperations
  /\ \E action \in OpenActions \cup CloseActions,
        amount \in {Num(1), Num(100), Num(1000)} :
       LET after == testOperation(loc[r], action, SymBTC, amount).loc
       IN  /\ payload' = [payload EXCEPT ![r] = Signal(action, amount, SymBTC)]
           /\ loc' = [loc EXCEPT ![r] = after]
           /\ events' = Append(events,
                          [type |-> "call", req |-> r, action |-> action,
                           before |-> loc[r].positions,
                           after |-> after.positions,
                           result |-> after.result])
  /\ UNCHANGED <<env, venue, pc, outcome>>

NextTestTrader == \E r \in Reqs : TestTraderCall(r)

\* a TestModeFuturesTrader has been constructed
TestTraderInit ==
  /\ env = Env("true", CopyExchanges, FALSE, "", Null, FALSE)
  /\ venue = PlainVenue
  /\ payload = [r \in Reqs |-> Signal("long_entry", Num(1), SymBTC)]
  /\ pc = [r \in Reqs |-> IF r = 1 THEN "test_trader" ELSE "unused"]
  /\ loc = [r \in Reqs |-> EmptyLoc]
  /\ outcome = [r \in Reqs |-> Pending]
  /\ events = <<>>

TestTraderSpec == TestTraderInit /\ [][NextTestTrader]_vars

\* ------------------------------------------------------- gateway --------
\* Number(value): a number or numeric string converts, text is NaN; one is
\* the model's integer for 1 in the unit of the field
ToNumber(value, one) ==
  CASE value.t \in {"num", "numstr"} -> [finite |-> TRUE, v |-> value.v]
    [] value.t = "bool" -> [finite |-> TRUE, v |-> value.v * one]
    [] value.t = "null" -> [finite |-> TRUE, v |-> 0]
    [] OTHER -> [finite |-> FALSE, v |-> 0]

\* payload[field] === undefined || === null || === ''
IsMissing(value) == value.t = "null" \/ (value.t = "str" /\ value.s = "")

validActions == {"long_entry", "long_exit", "short_entry", "short_exit"}

\* the payload checks of the gateway, in their order: the message of the
\* 400 response, or "" when the payload passes
validatePayload(p) ==
  LET amountValue == ToNumber(p.amount, 100)
      leverageValue == ToNumber(p.leverage, 1)
  IN  IF p.action = "" THEN "Missing required field: action"
      ELSE IF IsMissing(p.amount) THEN "Missing required field: amount"
      ELSE IF p.symbol = <<>> THEN "Missing required field: symbol"
      ELSE IF IsMissing(p.leverage) THEN "Missing required field: leverage"
      ELSE IF p.action \notin validActions THEN "Invalid action"
      ELSE IF ~amountValue.finite THEN "Amount must be a numeric value"
      ELSE IF amountValue.v <= 0 \/ amountValue.v > 100 * 100
      THEN "Amount must be greater than 0 and less than or equal to 100"
      ELSE IF ~leverageValue.finite THEN "Leverage must be a numeric value"
      ELSE IF leverageValue.v <= 0 \/ leverageValue.v > 125
      THEN "Leverage must be between 1 and 125"
      ELSE ""

\* the 400 response of the gateway
Rejected(message) == [status |-> "rejected", error |-> message, data |-> NoResult]

\* the requests to the exchange that handleWebhook({validateOnly: true})
\* issues: getContract of the live trader (the test trader answers from
\* memory, a live deployment without credentials throws before)
validationRequests ==
  IF IsTestMode \/ ~env.credentials THEN <<>> ELSE <<"contract">>

\* fetch of the gateway from the payload checks to the symbol validation:
\* a payload that fails a check is answered 400, one that passes has its
\* amount and leverage replaced by their numbers and is handed to
\* handleWebhook for validation
ValidatePayload(r) ==
  /\ pc[r] = "validate"
  /\ IF validatePayload(payload[r]) # ""
     THEN /\ pc' = [pc EXCEPT ![r] = "done"]
          /\ outcome' = [outcome EXCEPT
                           ![r] = Rejected(validatePayload(payload[r]))]
          /\ UNCHANGED <<payload, loc>>
     ELSE /\ pc' = [pc EXCEPT ![r] = "validate_symbol"]
          /\ payload' = [payload EXCEPT
                           ![r].amount = Num(ToNumber(@, 100).v),
                           ![r].leverage = Num(ToNumber(@, 1).v)]
          /\ loc' = [loc EXCEPT ![r].validation = validationRequests]
          /\ UNCHANGED outcome
  /\ UNCHANGED <<env, venue, events>>

\* handleWebhook({...payload, validateOnly: true}) answered: the missing
\* credentials of a live deployment or a failed getContract give a 400,
\* otherwise the signal goes to its executor (the mock getContract of the
\* test trader never fails)
ValidateSymbol(r) ==
  /\ pc[r] = "validate_symbol"
  /\ \E ok \in IF IsTestMode THEN {TRUE} ELSE BOOLEAN :
       IF ~IsTestMode /\ ~env.credentials
       THEN /\ pc' = [pc EXCEPT ![r] = "done"]
            /\ outcome' = [outcome EXCEPT ![r] =
                             Rejected("Gate.io API credentials not configured")]
       ELSE IF ~ok
       THEN /\ pc' = [pc EXCEPT ![r] = "done"]
            /\ outcome' = [outcome EXCEPT ![r] = Rejected("Invalid symbol")]
       ELSE /\ pc' = [pc EXCEPT ![r] = "dispatch"]
            /\ UNCHANGED outcome
  /\ UNCHANGED <<env, venue, payload, loc, events>>

GatewayStep(r) ==
  \/ ValidatePayload(r)
  \/ ValidateSymbol(r)

NextGateway == \E r \in Reqs : GatewayStep(r) \/ LiveStep(r) \/ OtherStep(r)

\* payloads as they arrive: actions, amounts and leverages inside and
\* outside the accepted ranges, present and missing
ArrivingPayloads ==
  { LeveragedSignal(action, amount, symbol, leverage) :
      action \in {"long_entry", "long_exit", "hold", ""},
      amount \in {Num(1000), NumStr(1000), Num(100 * 100), Num(0),
                  Num(100 * 100 + 1), Str("abc"), Null},
      symbol \in {SymBTC, <<>>},
      leverage \in {Null, Num(20), NumStr(20), Num(1), Num(125), Num(0),
                    Num(126), Str("max")} }

\* an authenticated POST with a JSON payload has arrived at the gateway
GatewayInit ==
  /\ \E testMode \in {"", "true"}, copy \in Copies, credentials \in BOOLEAN,
        logs \in BOOLEAN :
       env = Env(testMode, copy, credentials, "", Null, logs)
  /\ venue = PlainVenue
  /\ \E p \in ArrivingPayloads : payload = [r \in Reqs |-> p]
  /\ pc = [r \in Reqs |-> IF r = 1 THEN "validate" ELSE "unused"]
  /\ loc = [r \in Reqs |-> EmptyLoc]
  /\ outcome = [r \in Reqs |-> Pending]
  /\ events = <<>>

GatewaySpec == GatewayInit /\ [][NextGateway]_vars

\* -------------------------------------------------- rate limiting -------
\* the latest instant of the clock, in ticks of 30 s
MaxClock == 3

\* maxRequests and windowMs as the gateway passes them: 10 requests per
\* 60000 ms, the window being two ticks of the clock
maxRequests == 10
windowMs == 2

\* RATE_LIMITER.get(key, 'json') of a key that holds nothing
NoRateData == [count |-> 0, resetAt |-> 0]

\* the identifier of withRateLimit: the client address of the request, or
\* 'unknown' when no header carries one
rateLimitIdentifier(r) ==
  IF payload[r].clientIP = "" THEN "unknown" ELSE payload[r].clientIP

\* what isRateLimited writes back for the data it read at the instant now
\* (a count of 0 when it writes nothing: the limit is reached)
rateLimitWrite(data, now) ==
  IF data = NoRateData \/ now >= data.resetAt
  THEN [count |-> 1, resetAt |-> now + windowMs]
  ELSE IF data.count >= maxRequests THEN NoRateData
  ELSE [count |-> data.count + 1, resetAt |-> data.resetAt]

\* the request passed the limiter: isRateLimited returned false
Pass(r, opens) ==
  [type |-> "pass", req |-> r, client |-> rateLimitIdentifier(r),
   at |-> loc[r].now, opens |-> opens]

\* withRateLimit up to the first await of isRateLimited: without a
\* RATE_LIMITER binding nothing is limited, with one the instant is taken
\* and the key is read
WithRateLimit(r) ==
  /\ pc[r] = "arrive"
  /\ IF ~env.RATE_LIMITER.bound
     THEN /\ pc' = [pc EXCEPT ![r] = "parse"]
          /\ loc' = [loc EXCEPT ![r].now = env.clock]
          /\ events' = Append(events, [Pass(r, FALSE) EXCEPT !.at = env.clock])
     ELSE /\ pc' = [pc EXCEPT ![r] = "rate_get"]
          /\ loc' = [loc EXCEPT ![r].now = env.clock]
          /\ UNCHANGED events
  /\ UNCHANGED <<env, venue, payload, outcome>>

\* RATE_LIMITER.get answered: the limit is reached (no write), or a put of
\* the new counter is issued
OnRateLimiterGet(r) ==
  /\ pc[r] = "rate_get"
  /\ LET data == env.RATE_LIMITER.data[rateLimitIdentifier(r)]
         isLimited == rateLimitWrite(data, loc[r].now) = NoRateData
     IN  /\ pc' = [pc EXCEPT ![r] = IF isLimited THEN "rate_headers"
                                    ELSE "rate_put"]
         /\ loc' = [loc EXCEPT ![r].data = data, ![r].isLimited = isLimited]
  /\ UNCHANGED <<env, venue, payload, outcome, events>>

\* RATE_LIMITER.put answered: the key holds the counter computed from what
\* the get of r returned, whatever it held meanwhile, and isRateLimited
\* returns false
OnRateLimiterPut(r) ==
  /\ pc[r] = "rate_put"
  /\ LET id == rateLimitIdentifier(r)
         written == rateLimitWrite(loc[r].data, loc[r].now)
     IN  /\ env' = [env EXCEPT !.RATE_LIMITER.data[id] = written]
         /\ events' = Append(events, Pass(r, written.count = 1))
  /\ pc' = [pc EXCEPT ![r] = "rate_headers"]
  /\ UNCHANGED <<venue, payload, loc, outcome>>

\* getRateLimitHeaders answered (a second get of the key), then the 429 of
\* withRateLimit or the way on to the parsing of the payload
OnRateLimitHeaders(r) ==
  /\ pc[r] = "rate_headers"
  /\ IF loc[r].isLimited
     THEN /\ pc' = [pc EXCEPT ![r] = "done"]
          /\ outcome' = [outcome EXCEPT ![r] =
                           [status |-> "limited", error |-> "Rate limit exceeded",
                            data |-> NoResult]]
     ELSE /\ pc' = [pc EXCEPT ![r] = "parse"]
          /\ UNCHANGED outcome
  /\ UNCHANGED <<env, venue, payload, loc, events>>

\* time passes
Tick ==
  /\ env.clock < MaxClock
  /\ env' = [env EXCEPT !.clock = @ + 1]
  /\ UNCHANGED <<venue, payload, pc, loc, outcome, events>>

RateLimitStep(r) ==
  \/ WithRateLimit(r)
  \/ OnRateLimiterGet(r)
  \/ OnRateLimiterPut(r)
  \/ OnRateLimitHeaders(r)

NextRateLimit == Tick \/ \E r \in Reqs : RateLimitStep(r)

\* the request of a client: its address header ("" when absent) and its
\* body, a JSON object with the fields of a signal and a secret ("" when
\* absent)
Request(clientIP, secret, signal) ==
  [action |-> signal.action, amount |-> signal.amount,
   symbol |-> signal.symbol, leverage |-> signal.leverage,
   clientIP |-> clientIP, secret |-> secret, json |-> "object"]

\* a request whose body is the JSON text null, and one whose body is no JSON
NullRequest(clientIP) ==
  [Request(clientIP, "", LeveragedSignal("", Null, <<>>, Null)) EXCEPT
     !.json = "null"]
InvalidRequest(clientIP) ==
  [NullRequest(clientIP) EXCEPT !.json = "invalid"]

TradingViewIP == "52.89.214.238"
Clients == {TradingViewIP, "unknown"}

\* the passes of the count requests that were handled one after the other
\* at instant 0, the first of which opened the window
EarlierPasses(count) ==
  [i \in 1 .. count |->
     [type |-> "pass", req |-> 0, client |-> TradingViewIP, at |-> 0,
      opens |-> i = 1]]

\* POST requests arrive at the gateway at instant 0, after count requests
\* of one client have been handled one after the other in the same instant
RateLimitInit ==
  /\ \E bound \in BOOLEAN, count \in 0 .. maxRequests :
       /\ (~bound) => count = 0
       /\ env = [TEST_MODE |-> "true", traderCopy |-> CopyExchanges,
                 credentials |-> FALSE, POSITION_MODE |-> "",
                 DEFAULT_LEVERAGE |-> Null, TRADE_LOGS |-> FALSE,
                 clock |-> 0,
                 RATE_LIMITER |->
                   [bound |-> bound,
                    data |-> [id \in Clients |->
                               IF id = TradingViewIP /\ count > 0
                               THEN [count |-> count, resetAt |-> windowMs]
                               ELSE NoRateData]]]
       /\ events = EarlierPasses(count)
  /\ venue = PlainVenue
  /\ \E known \in 0 .. NumReqs :
       payload = [r \in Reqs |->
                    Request(IF r <= known THEN TradingViewIP ELSE "", "",
                            Signal("long_entry", Num(1000), SymBTC))]
  /\ pc = [r \in Reqs |-> "arrive"]
  /\ loc = [r \in Reqs |-> EmptyLoc]
  /\ outcome = [r \in Reqs |-> Pending]

RateLimitSpec == RateLimitInit /\ [][NextRateLimit]_vars

\* ----------------------------------------------------- authentication ---
tradingViewIPs ==
  {"52.89.214.238", "34.212.75.30", "54.218.53.128", "52.32.178.7"}

\* a validation that looks at the address only
validateRequestAddressOnly(request) ==
  IF env.ENABLE_IP_WHITELIST = "true" /\ request.clientIP \notin tradingViewIPs
  THEN "Unauthorized IP address"
  ELSE ""

\* validateRequest(request, env, payload): the error of an invalid request,
\* "" for a valid one; the secret is compared only when one is configured
\* and the payload is truthy
validateRequest(request) ==
  IF env.ENABLE_IP_WHITELIST = "true" /\ request.clientIP \notin tradingViewIPs
  THEN "Unauthorized IP address"
  ELSE IF /\ env.WEBHOOK_SECRET # "" /\ request.json = "object"
          /\ request.secret # env.WEBHOOK_SECRET
  THEN "Invalid or missing secret token"
  ELSE ""

\* request.json() answered: a body that is no JSON is answered 400
ParsePayload(r) ==
  /\ pc[r] = "parse"
  /\ IF payload[r].json = "invalid"
     THEN /\ pc' = [pc EXCEPT ![r] = "done"]
          /\ outcome' = [outcome EXCEPT ![r] = Rejected("Invalid JSON payload")]
     ELSE /\ pc' = [pc EXCEPT ![r] = "auth"]
          /\ UNCHANGED outcome
  /\ UNCHANGED <<env, venue, payload, loc, events>>

\* validateRequest answered: an invalid request is answered 401; a valid
\* one goes on to the payload checks, where reading a field of a null
\* payload throws and the catch of fetch answers 500
ValidateRequest(r) ==
  /\ pc[r] = "auth"
  /\ IF validateRequest(payload[r]) # ""
     THEN /\ pc' = [pc EXCEPT ![r] = "done"]
          /\ outcome' = [outcome EXCEPT ![r] =
                           [status |-> "unauthorized",
                            error |-> validateRequest(payload[r]),
                            data |-> NoResult]]
     ELSE IF payload[r].json = "null"
     THEN /\ pc' = [pc EXCEPT ![r] = "done"]
          /\ outcome' = [outcome EXCEPT ![r] =
                           [status |-> "error",
                            error |-> "Cannot read properties of null",
                            data |-> NoResult]]
     ELSE /\ pc' = [pc EXCEPT ![r] = "validate"]
          /\ UNCHANGED outcome
  /\ UNCHANGED <<env, venue, payload, loc, events>>

NextAuth ==
  \E r \in Reqs :
    ParsePayload(r) \/ ValidateRequest(r) \/ GatewayStep(r) \/ LiveStep(r)
      \/ OtherStep(r)

\* the deployments of the authenticated gateway: test mode, and the live
\* trader in both copies with and without a TRADE_LOGS binding
AuthDeployments ==
  {Env("true", CopyExchanges, FALSE, "", Null, FALSE)}
    \cup {LiveEnv(copy, logs) : copy \in Copies, logs \in BOOLEAN}

\* requests from listed, unlisted and unknown addresses, with the right, a
\* wrong and no secret, carrying an open, a close, a signal without
\* leverage, null, or no JSON at all
AuthRequests ==
  LET addresses == {TradingViewIP, "54.218.53.128", "203.0.113.7", ""}
  IN  { Request(clientIP, secret, signal) :
          clientIP \in addresses, secret \in {"", "s3cret", "guess"},
          signal \in {Signal("long_entry", Num(1000), SymBTC),
                      Signal("short_exit", NumStr(1000), SymBTC),
                      LeveragedSignal("long_entry", Num(1000), SymBTC, Null)} }
        \cup {NullRequest(clientIP) : clientIP \in addresses}
        \cup {InvalidRequest(clientIP) : clientIP \in addresses}

\* a POST that passed the rate limiter is about to be parsed
AuthInit ==
  /\ \E e \in AuthDeployments, whitelist \in {"", "true"},
        secret \in {"", "s3cret"} :
       env = [f \in DOMAIN e \cup {"ENABLE_IP_WHITELIST", "WEBHOOK_SECRET"} |->
                CASE f = "ENABLE_IP_WHITELIST" -> whitelist
                  [] f = "WEBHOOK_SECRET" -> secret
                  [] OTHER -> e[f]]
  /\ venue = PlainVenue
  /\ \E request \in AuthRequests : payload = [r \in Reqs |-> request]
  /\ pc = [r \in Reqs |-> IF r = 1 THEN "parse" ELSE "unused"]
  /\ loc = [r \in Reqs |-> EmptyLoc]
  /\ outcome = [r \in Reqs |-> Pending]
  /\ events = <<>>

AuthSpec == AuthInit /\ [][NextAuth]_vars

\* ------------------------------------- operations on any arguments ------
\* amounts a caller of handleWebhook can pass: -1.5, 0, 1.5, '10', null and
\* text
AnyAmounts ==
  {Num(-150), Num(0), Num(150), NumStr(1000), Null, Str("abc")}

\* long 3 and short 2 contracts held, reported in one object
TwoSidedPosition ==
  RawObject(Obj2("long_size", Num(3), "short_size", Num(-2)))

\* handleWebhook reached with arguments no gateway has looked at
AnyArguments ==
  { Scenario(Env(testMode, copy, TRUE, "", Null, logs),
             Venue(RawObject(MarginAccount(NumStr(1000), NumStr(5))),
                   FuturesAccount(NumStr(1000), NumStr(4)), RawNone,
                   ContractInfo(NumStr(100), NumStr(100)),
                   TwoSidedPosition, RawArray(<<>>)),
             LeveragedSignal(action, amount, SymBTC, Null)) :
      testMode \in {"", "true"}, copy \in Copies, logs \in BOOLEAN,
      action \in OpenActions \cup CloseActions \cup {"hold"},
      amount \in AnyAmounts }

\* the test trader is not given text: its arithmetic on NaN is not modelled
OperationScenarios ==
  { sc \in AnyArguments :
      sc.env.TEST_MODE = "true" => sc.signal.amount.t # "str" }

OperationInit ==
  \E sc \in OperationScenarios :
    /\ env = sc.env
    /\ venue = sc.venue
    /\ payload = [r \in Reqs |-> sc.signal]
    /\ pc = [r \in Reqs |-> IF r = 1 THEN "dispatch" ELSE "unused"]
    /\ loc = [r \in Reqs |-> EmptyLoc]
    /\ outcome = [r \in Reqs |-> Pending]
    /\ events = <<>>

OperationSpec == OperationInit /\ [][Next]_vars

\* ------------------------------------------- executor serialization -----
\* position of the event of a request in the event log, 0 when absent
EventIndex(type, r) ==
  LET hits == {i \in DOMAIN events : events[i].type = type /\ events[i].req = r}
  IN  IF hits = {} THEN 0 ELSE CHOOSE i \in hits : TRUE

Admitted(r) == EventIndex("admit", r) # 0
Responded(r) == EventIndex("response", r) # 0
AdmittedBefore(a, b) ==
  Admitted(a) /\ Admitted(b) /\ EventIndex("admit", a) < EventIndex("admit", b)

SameExecutor(a, b) == symbolKey(a) = symbolKey(b)

\* handleWebhook has been entered
Started(r) == pc[r] \notin {"dispatch", "do_body"}
\* handleWebhook has returned or thrown
Terminal(r) == pc[r] \in {"respond", "done"}
\* the execution window: from the first request to the exchange to the result
InWindow(r) == loc[r].calls # <<>> /\ pc[r] # "done"
\* suspended in a request to the exchange
Suspended(r) ==
  pc[r] \in {"margin", "contract", "position", "position_list", "order"}

\* C1: two signals routed to the same executor never have overlapping
\* execution windows (no exchange request of one between the first exchange
\* request and the result of the other)
C1_MutualExclusion ==
  \A a, b \in Reqs :
    (a # b /\ SameExecutor(a, b)) => ~(InWindow(a) /\ InWindow(b))

\* C2: for one symbol key, a signal admitted later begins execution only
\* after the earlier one is terminal, and the results come in admission order
C2_ArrivalOrder ==
  \A a, b \in Reqs :
    (a # b /\ SameExecutor(a, b) /\ AdmittedBefore(a, b)) =>
      /\ Started(b) => Terminal(a)
      /\ Responded(b) =>
           (Responded(a)
            /\ EventIndex("response", a) < EventIndex("response", b))

\* C3: a failed execution is returned as an error to its own caller, and
\* every signal admitted to an executor still eventually begins execution
C3_FailureDoesNotBlock ==
  /\ [](\A r \in Reqs :
          (pc[r] = "done" /\ loc[r].threw) =>
            (outcome[r].status = "error" /\ outcome[r].error = loc[r].err))
  /\ \A r \in Reqs : Admitted(r) ~> Started(r)

\* a signal admitted after the failure of another signal for the same symbol
\* has begun execution, and the failed one was answered with its error
C3_Witness ==
  \E a, b \in Reqs :
    /\ a # b /\ SameExecutor(a, b)
    /\ loc[a].threw /\ outcome[a].status = "error"
    /\ Responded(a) /\ Admitted(b)
    /\ EventIndex("response", a) < EventIndex("admit", b)
    /\ Started(b)

\* C4: a signal whose symbol key has no other signal in flight can always
\* take its next step, whatever the executions of other symbol keys are doing
C4_CrossInstrumentIndependence ==
  \A r \in Reqs :
    (pc[r] # "done"
     /\ \A q \in Reqs \ {r} :
          SameExecutor(q, r) => pc[q] \in {"dispatch", "done"})
      => ENABLED LiveStep(r)

\* a signal for one symbol was admitted and answered while an earlier
\* execution for another symbol was suspended in a request to the exchange
C4_Witness ==
  \E x, y \in Reqs :
    /\ ~SameExecutor(x, y)
    /\ Suspended(x) /\ AdmittedBefore(x, y)
    /\ pc[y] = "done" /\ outcome[y].status = "ok"

\* ------------------------------------------------------ open sizing -----
\* the execution is an open (marketBuy / openShort)
IsOpen(r) == loc[r].op \in {"marketBuy", "openShort"}
\* the open has computed its size
Sized(r) == IsOpen(r) /\ loc[r].leverage # 0
\* p x available x leverage of an execution, in ten-thousandths
Notional(r) ==
  loc[r].percentage * loc[r].availableBalance * loc[r].leverage
\* value of one contract (contractSize x markPrice), in ten-thousandths
ContractValue(r) == 100 * loc[r].markPrice * loc[r].contractSize
\* the orders request r has submitted to the exchange
OrdersOf(r) == {loc[r].orders[i] : i \in DOMAIN loc[r].orders}

\* C5: every order an open submits carries exactly
\* floor(p x available x leverage / markPrice / contractSize) contracts, p
\* being the normalized amount of the signal: the one count k with
\* k x value <= notional < (k + 1) x value, long orders positive and short
\* orders negative
C5_OpenSizing ==
  \A r \in Reqs : \A order \in OrdersOf(r) :
    IsOpen(r) =>
      /\ loc[r].percentage = normalizePercentage(payload[r].amount).p
      /\ Abs(order.size) * ContractValue(r) <= Notional(r)
      /\ Notional(r) < (Abs(order.size) + 1) * ContractValue(r)
      /\ order.size = IF loc[r].side = "long" THEN Abs(order.size)
                      ELSE -Abs(order.size)

\* an accepted open order whose size was rounded down from a fractional count
C5_Witness ==
  \E r \in Reqs :
    /\ IsOpen(r) /\ pc[r] = "done" /\ outcome[r].status = "ok"
    /\ outcome[r].data.kind = "order" /\ outcome[r].data.size >= 2
    /\ Notional(r) % ContractValue(r) # 0

\* C6: the notional of every order an open submits (contracts x contractSize
\* x markPrice) never exceeds p x available x leverage
C6_AllocationCap ==
  \A r \in Reqs : \A order \in OrdersOf(r) :
    IsOpen(r) => Abs(order.size) * ContractValue(r) <= Notional(r)

\* a short open was submitted with a notional strictly below its allocation
C6_Witness ==
  \E r \in Reqs : \E order \in OrdersOf(r) :
    /\ loc[r].op = "openShort" /\ order.size < 0
    /\ Abs(order.size) * ContractValue(r) < Notional(r)

\* C7: an open, of the live or of the test trader, whose contract count
\* floors to zero or less fails with the order-too-small error, creates no
\* order and records no position
C7_OrderTooSmall ==
  \A r \in Reqs :
    (Sized(r) /\ Terminal(r) /\ Notional(r) < ContractValue(r)) =>
      /\ loc[r].threw
      /\ ~env.TRADE_LOGS => loc[r].err = "Calculated order size is zero"
      /\ loc[r].orders = <<>>
      /\ loc[r].result.kind = "none"
      /\ ~loc[r].positions.held

\* the live trader has normalized the amount of an open
Normalized(r) == ~IsTestMode /\ IsOpen(r) /\ loc[r].percentage # 0

\* C8 as stated: for every amount a in (0, 1], normalizePercentage(a)
\* equals normalizePercentage(a x 100)
C8_BothFormsAlike ==
  \A r \in Reqs :
    (Normalized(r) /\ payload[r].amount.v > 0 /\ payload[r].amount.v <= 100) =>
      normalizePercentage(Num(payload[r].amount.v * 100)).p = loc[r].percentage

\* C8 amended: for every amount a in (0.01, 1], normalizePercentage(a)
\* equals normalizePercentage(a x 100)
C8_BothFormsAlikeAboveOnePercent ==
  \A r \in Reqs :
    (Normalized(r) /\ payload[r].amount.v > 1 /\ payload[r].amount.v <= 100) =>
      /\ ~normalizePercentage(Num(payload[r].amount.v * 100)).err
      /\ normalizePercentage(Num(payload[r].amount.v * 100)).p
           = loc[r].percentage

\* the amount 0.25 was normalized to the fraction 0.25, as 25 is
C8_Witness ==
  \E r \in Reqs :
    /\ Normalized(r) /\ payload[r].amount = Num(25)
    /\ loc[r].percentage = 2500
    /\ normalizePercentage(Num(2500)).p = 2500

\* C9: an amount above 1 is a whole percentage and a decimal amount such as
\* 0.25 is that many percent too (0.25%): the notional of an open is
\* amount / 100 x available x leverage
C9_DecimalAmountIsPercent ==
  \A r \in Reqs :
    Sized(r) =>
      Notional(r)
        = payload[r].amount.v * loc[r].availableBalance * loc[r].leverage

\* the positive leverage a position carries for a side, 0 when none
PositionLeverage(position, side) ==
  IF IsNoObj(position) THEN 0
  ELSE LET own == parseNum0(Get(position, IF side = "short"
                                           THEN "short_leverage"
                                           ELSE "long_leverage"))
           common == parseNum0(Get(position, "leverage"))
       IN  IF own > 0 THEN own ELSE IF common > 0 THEN common ELSE 0

C11_SignalLeverageOverride ==
  \A r \in Reqs :
    (IsOpen(r) /\ loc[r].orders # <<>> /\ payload[r].leverage.t = "num") =>
      loc[r].leverage = payload[r].leverage.v

\* ------------------------------------------------------------ closes ----
\* the execution is a close (marketSell / closeShort)
IsClose(r) == loc[r].op \in {"marketSell", "closeShort"}
\* contracts open on the side the close is about, as getPosition reported
SideOpen(r) ==
  IF IsNoObj(loc[r].position) THEN 0
  ELSE IF loc[r].side = "long"
       THEN parseNum0(Get(loc[r].position, "long_size"))
       ELSE Abs(parseNum0(Get(loc[r].position, "short_size")))
\* the close runs in dual mode
InDualMode(r) ==
  determinePositionMode(loc[r].position, positionModeOption)
    = "dual_long_short"

\* C12: in dual mode the size of every order a close submits has the
\* magnitude min(requested contracts, open size of the side), so it never
\* exceeds the open size
C12_DualCloseClamp ==
  \A r \in Reqs : \A order \in OrdersOf(r) :
    (IsClose(r) /\ InDualMode(r)) =>
      /\ Abs(order.size) = Min(loc[r].requestedContracts, SideOpen(r))
      /\ Abs(order.size) <= SideOpen(r)

\* a long of 3 contracts, 10 requested: the order has size -3
C12_Witness ==
  \E r \in Reqs : \E order \in OrdersOf(r) :
    /\ loc[r].op = "marketSell" /\ InDualMode(r)
    /\ SideOpen(r) = 3 /\ loc[r].requestedContracts = 10
    /\ order.size = -3

CallsOf(r) == {loc[r].calls[i] : i \in DOMAIN loc[r].calls}
\* the error a failed contract fetch ends the operation of r with
ContractFailure(r) ==
  (IF IsClose(r) THEN WrapPrefix(loc[r].op) ELSE "")
    \o "Failed to get contract info"
\* the write of the error record to TRADE_LOGS failed in the catch of
\* handleWebhook
ErrorLogFailed(r) ==
  env.TRADE_LOGS /\ loc[r].threw /\ loc[r].err = "TRADE_LOGS put failed"

C15_NoSwallowedErrors ==
  \A r \in Reqs :
    (pc[r] = "done" /\ loc[r].failed # {}) => outcome[r].status = "error"

\* number of order submissions among the requests of r
OrderCalls(r) == Cardinality({i \in DOMAIN loc[r].calls : loc[r].calls[i] = "order"})
\* the error a failed order submission ends the operation of r with
OrderFailure(r) == WrapPrefix(loc[r].op) \o "Gate.io API error"
\* at most one order submission, and it is the last request of r
OneOrderAtTheEnd(r) ==
  /\ OrderCalls(r) <= 1 /\ Len(loc[r].orders) = OrderCalls(r)
  /\ OrderCalls(r) = 1 => loc[r].calls[Len(loc[r].calls)] = "order"

C17_CloseConversion ==
  \A r \in Reqs :
    (IsClose(r) /\ loc[r].contractSize > 0
     /\ payload[r].amount.t \in {"num", "numstr"}) =>
      /\ loc[r].requestedContracts >= 0
      /\ loc[r].requestedContracts * loc[r].contractSize
           <= Abs(payload[r].amount.v)
      /\ Abs(payload[r].amount.v)
           < (loc[r].requestedContracts + 1) * loc[r].contractSize

\* the signal is one the input rules reject: an amount that is no positive
\* number, or an unsupported action
BadInput(r) ==
  \/ payload[r].amount.t \notin {"num", "numstr"}
  \/ payload[r].amount.v <= 0
  \/ payload[r].action \notin OpenActions \cup CloseActions

\* C19: a signal with a non-positive or non-numeric amount or an unsupported
\* action is rejected with an error before any request to the exchange
C19_InputErrorsPrecedeIO ==
  \A r \in Reqs :
    (~IsTestMode /\ BadInput(r)) =>
      /\ loc[r].calls = <<>>
      /\ Terminal(r) => loc[r].threw

\* ------------------------------------------------------ order shape -----
\* C18: every order submitted to the exchange has a non-zero size, positive
\* for long_entry and short_exit, negative for short_entry and long_exit,
\* and is reduce-only exactly when the action is an exit
C18_OrderShape ==
  \A r \in Reqs : \A order \in OrdersOf(r) :
    /\ order.size # 0
    /\ payload[r].action \in {"long_entry", "short_exit"} => order.size > 0
    /\ payload[r].action \in {"short_entry", "long_exit"} => order.size < 0
    /\ order.reduce_only <=> payload[r].action \in CloseActions

\* a short_exit was accepted with a positive, reduce-only order
C18_Witness ==
  \E r \in Reqs :
    /\ payload[r].action = "short_exit" /\ pc[r] = "done"
    /\ outcome[r].status = "ok" /\ outcome[r].data.kind = "order"
    /\ outcome[r].data.size > 0 /\ outcome[r].data.reduce_only

\* -------------------------------------------------------- admission -----
\* the trade of r is being or has been executed
ReachedExecution(r) == Admitted(r)
\* action and amount of the signal are acceptable
ActionAndAmountValid(r) ==
  /\ payload[r].action \in OpenActions \cup CloseActions
  /\ payload[r].amount.t \in {"num", "numstr"}
  /\ payload[r].amount.v > 0 /\ payload[r].amount.v <= 100 * 100

\* C20: a signal reaches trade execution only if its action is one of the
\* four, 0 < amount <= 100 and its leverage, when supplied, lies within
\* 1..125; and a signal without a leverage field that meets the other
\* conditions is not turned away for it
C20_GatewayAdmission ==
  \A r \in Reqs :
    /\ ReachedExecution(r) =>
         /\ ActionAndAmountValid(r)
         /\ payload[r].leverage.t # "null" =>
              (payload[r].leverage.v >= 1 /\ payload[r].leverage.v <= 125)
    /\ (payload[r].leverage.t = "null" /\ ActionAndAmountValid(r)
        /\ payload[r].symbol # <<>> /\ pc[r] # "validate") =>
         outcome[r].status # "rejected"
           \/ outcome[r].error \in {"Invalid symbol",
                                     "Gate.io API credentials not configured"}

\* --------------------------------------------------- position modes -----
\* the position fetched for r says nothing about its accounting mode
NoModeInformation(r) ==
  \/ IsNoObj(loc[r].position)
  \/ /\ ~Truthy(Get(loc[r].position, "mode"))
     /\ ~Truthy(Get(loc[r].position, "position_mode"))
     /\ Get(loc[r].position, "dual_mode").t # "bool"

\* C21: with no POSITION_MODE configured and no mode information in the
\* fetched position, a close is handled in single mode: every order it
\* submits has exactly the requested size, without clamping
C21_DefaultSingleMode ==
  \A r \in Reqs : \A order \in OrdersOf(r) :
    (IsClose(r) /\ env.POSITION_MODE = "" /\ NoModeInformation(r)) =>
      Abs(order.size) = loc[r].requestedContracts

\* -------------------------------------------------------- test mode -----
\* C22: with TEST_MODE 'true' no request is ever issued to the exchange,
\* neither by the validation of a signal nor by its execution, and every
\* result that carries an order is a mock order of the in-memory trader
C22_TestModeSafety ==
  \A r \in Reqs :
    env.TEST_MODE = "true" =>
      /\ loc[r].validation = <<>>
      /\ loc[r].calls = <<>> /\ loc[r].orders = <<>>
      /\ outcome[r].status = "ok" =>
           outcome[r].data.kind \in {"mock", "no_position"}

\* a validated long_entry was executed in test mode and answered with a
\* mock order
C22_Witness ==
  \E r \in Reqs :
    /\ env.TEST_MODE = "true" /\ payload[r].action = "long_entry"
    /\ Admitted(r) /\ pc[r] = "done"
    /\ outcome[r].status = "ok" /\ outcome[r].data.kind = "mock"
    /\ loc[r].positions.held

\* the close runs in single mode
InSingleMode(r) ==
  determinePositionMode(loc[r].position, positionModeOption) = "single"

\* C23: in single mode a close on a non-empty side with a positive requested
\* count submits one order of exactly that count, negative for long_exit
\* and positive for short_exit, reduce-only, also when the count exceeds
\* the observed position
C23_SingleModeClose ==
  \A r \in Reqs :
    (IsClose(r) /\ InSingleMode(r) /\ SideOpen(r) > 0
     /\ loc[r].requestedContracts > 0) =>
      /\ Len(loc[r].orders) = 1
      /\ loc[r].orders[1].reduce_only
      /\ loc[r].orders[1].size =
           (IF payload[r].action = "long_exit"
            THEN -loc[r].requestedContracts ELSE loc[r].requestedContracts)

\* a long of 3 contracts and 10 requested in single mode: the order is -10
C23_Witness ==
  \E r \in Reqs :
    /\ payload[r].action = "long_exit" /\ InSingleMode(r)
    /\ SideOpen(r) = 3 /\ loc[r].requestedContracts = 10
    /\ loc[r].orders # <<>> /\ loc[r].orders[1].size = -10
    /\ loc[r].orders[1].reduce_only

\* the base amount of r is a number smaller than one contract
SubContractAmount(r) ==
  /\ payload[r].amount.t \in {"num", "numstr"}
  /\ loc[r].contractSize > 0
  /\ payload[r].amount.v >= 0 /\ payload[r].amount.v < loc[r].contractSize

\* C24: a close whose base amount converts to no contract submits no order
\* and returns no_action when the side has a positive open size, and
\* no_position when the side is empty
C24_NoActionOnSubContractClose ==
  \A r \in Reqs :
    (IsClose(r) /\ SubContractAmount(r)) =>
      /\ loc[r].orders = <<>> /\ "order" \notin CallsOf(r)
      /\ loc[r].result.kind =
           (IF SideOpen(r) > 0 THEN "no_action" ELSE "no_position")
      /\ (pc[r] = "done" /\ outcome[r].status = "ok") =>
           outcome[r].data = loc[r].result

\* a close of 0.01 against a long of 3 contracts of size 1 came back as
\* no_action
C24_Witness ==
  \E r \in Reqs :
    /\ payload[r].action = "long_exit" /\ SubContractAmount(r)
    /\ SideOpen(r) = 3 /\ pc[r] = "done" /\ loc[r].orders = <<>>
    /\ outcome[r].status = "ok" /\ outcome[r].data.kind = "no_action"

\* ----------------------------------------------------- rate limiting ----
\* the passes of one client in the window that the pass numbered i opened
PassesInWindow(i) ==
  {j \in DOMAIN events :
     /\ events[j].type = "pass" /\ events[j].client = events[i].client
     /\ events[j].at >= events[i].at
     /\ events[j].at < events[i].at + windowMs}

\* C25: with a RATE_LIMITER binding, in every interleaving of the get and
\* put steps of concurrent requests, at most maxRequests requests of one
\* client pass the limiter within one window (from the pass that opened it
\* to its resetAt), and the stored count never exceeds maxRequests
C25_RateLimitBound ==
  env.RATE_LIMITER.bound =>
    /\ \A i \in DOMAIN events :
         (events[i].type = "pass" /\ events[i].opens) =>
           Cardinality(PassesInWindow(i)) <= maxRequests
    /\ \A id \in Clients : env.RATE_LIMITER.data[id].count <= maxRequests

\* ---------------------------------------------------- authentication ----
\* the request of r is one validateRequest accepts: from a listed address
\* when the whitelist is enabled, with the configured secret when one is
Authorized(r) ==
  /\ env.ENABLE_IP_WHITELIST = "true" =>
       payload[r].clientIP \in tradingViewIPs
  /\ env.WEBHOOK_SECRET # "" => payload[r].secret = env.WEBHOOK_SECRET

\* C26: no request goes to the exchange, neither the contract lookup of the
\* validation nor a request of the execution, and no signal is dispatched to
\* its executor, unless the inbound request was authorized
C26_AuthenticationGates ==
  \A r \in Reqs :
    (loc[r].validation # <<>> \/ loc[r].calls # <<>> \/ Admitted(r)
     \/ pc[r] \in {"validate", "validate_symbol", "dispatch"}) =>
      Authorized(r)

\* with the whitelist enabled and a secret configured, a request from a
\* listed address with that secret had its contract looked up, was
\* dispatched and submitted an order
C26_Witness ==
  \E r \in Reqs :
    /\ env.ENABLE_IP_WHITELIST = "true" /\ env.WEBHOOK_SECRET = "s3cret"
    /\ payload[r].clientIP = "54.218.53.128" /\ payload[r].secret = "s3cret"
    /\ loc[r].validation = <<"contract">> /\ Admitted(r)
    /\ "order" \in CallsOf(r)

\* ----------------------------------------------------- mode selection ---
\* the mode one object of a payload reports by mode, position_mode or its
\* dual_mode flag ("" when it reports none)
ModeOfEntry(entry) ==
  IF Truthy(Get(entry, "mode")) THEN Get(entry, "mode").s
  ELSE IF Truthy(Get(entry, "position_mode")) THEN Get(entry, "position_mode").s
  ELSE IF Get(entry, "dual_mode").t = "bool"
  THEN (IF Get(entry, "dual_mode").v = 1 THEN "dual_long_short" ELSE "single")
  ELSE ""

\* the mode a raw position payload reports: that of the object, or of the
\* first entry of the array that reports one
RECURSIVE ModeOfEntries(_)
ModeOfEntries(items) ==
  IF items = <<>> THEN ""
  ELSE IF ModeOfEntry(Head(items)) # "" THEN ModeOfEntry(Head(items))
  ELSE ModeOfEntries(Tail(items))

ReportedMode(raw) ==
  CASE raw.shape = "object" -> ModeOfEntry(raw.obj)
    [] raw.shape = "array" -> ModeOfEntries(raw.items)
    [] OTHER -> ""

\* the mode that applies to a close against the payload of the position
\* endpoint: the reported one, otherwise the configured default
ApplicableMode ==
  IF ReportedMode(venue.position) # "" THEN ReportedMode(venue.position)
  ELSE positionModeOption

\* C27: a close is sized by the mode its fetched position payload reports
\* (by mode, position_mode or the dual_mode flag), otherwise by the
\* configured default: the order is clamped to the open side exactly when
\* that mode is the dual one
C27_ModeSelection ==
  \A r \in Reqs : \A order \in OrdersOf(r) :
    (IsClose(r) /\ "position_list" \notin CallsOf(r)) =>
      Abs(order.size) =
        (IF ApplicableMode = "dual_long_short"
         THEN Min(loc[r].requestedContracts, SideOpen(r))
         ELSE loc[r].requestedContracts)

\* ---------------------------------------------------------- routing -----
\* C28: two signals whose symbols resolve to the same exchange contract are
\* dispatched to the executor of one and the same key
C28_SameContractSameExecutor ==
  \A a, b \in Reqs :
    (Admitted(a) /\ Admitted(b)
     /\ parseSymbol(payload[a].symbol) = parseSymbol(payload[b].symbol)) =>
      SameExecutor(a, b)

\* ------------------------------------------------- reported results -----
\* the exchange accepted the order submission of r
OrderAccepted(r) ==
  /\ "order" \in CallsOf(r) /\ "order" \notin loc[r].failed
  /\ loc[r].result.kind = "order"

\* C29: when the exchange accepted the order of a signal its caller gets a
\* success carrying that order, and an error result means that no order was
\* accepted, also when the write to the trade log fails
C29_SuccessIsReported ==
  \A r \in Reqs :
    pc[r] = "done" =>
      /\ OrderAccepted(r) =>
           (outcome[r].status = "ok" /\ outcome[r].data = loc[r].result)
      /\ outcome[r].status = "error" => ~OrderAccepted(r)

\* ------------------------------------------------- test-mode closes -----
\* C30: on one test-mode trader, a long_exit for a symbol that holds only a
\* short position, and a short_exit for one that holds only a long
\* position, returns no_position and leaves the stored position as it was
C30_TestTraderSideChecks ==
  \A i \in DOMAIN events :
    (/\ events[i].type = "call" /\ events[i].before.held
     /\ \/ events[i].action = "long_exit" /\ events[i].before.size < 0
        \/ events[i].action = "short_exit" /\ events[i].before.size > 0) =>
      /\ events[i].result.kind = "no_position"
      /\ events[i].after = events[i].before

====
